---- MODULE Spec2Model ----
(***************************************************************************)
(* Bubble layout of the contacts screen: the bubble list and its id index, *)
(* the drag gesture of each bubble, add / remove / duration refresh, and   *)
(* the persistence of the layout snapshot under two storage keys.          *)
(*                                                                         *)
(* Lengths are pixels.  Phone numbers are sequences of one-character       *)
(* strings.  Storage requests of different asynchronous functions take     *)
(* effect in any order; the requests of one function are sequential        *)
(* (each is awaited before the next is issued).                            *)
(***************************************************************************)
EXTENDS Integers, Sequences, FiniteSets, Bags, TLC

\* ------------------------------------------------------------------ bounds
\* Number of add-contact operations in one session (ids are never reused).
MaxAdds == 1
\* A user event is handled while fewer than this many saves are in flight.
MaxSaves == 1

\* Number of entries of the device call log the CallLog screen aggregates.
MaxLogLen == 3
\* Number of times the CallLog screen is mounted.
MaxMounts == 2

\* Number of times a delete button is shown in one session.
MaxShows == 3

\* ------------------------------------------------------- window dimensions
width == 400
height == 250

\* ---------------------------------------------------------------- devices
Undefined == <<"undefined">>

NumA1 == <<"+","1"," ","(","5","5","5",")"," ","1","2","3","-","4","5","6","7">>
NumA2 == <<"5","5","5","1","2","3","4","5","6","7">>
LogNumA == <<"(","5","5","5",")"," ","1","2","3","-","4","5","6","7">>
LogNumB == <<"1","5","5","5","9","8","7","6","5","4","3">>
LogNumZ == <<"5","5","5","0","0","0","0","0","0","0">>

\* The contact list of the device (ExpoContacts.getContactsAsync).
DeviceContacts ==
  << [id |-> "c1", name |-> "Ann", phoneNumbers |-> <<NumA1, NumA2>>],
     [id |-> "c3", name |-> "Cy",  phoneNumbers |-> << >>] >>

\* The call log of the device (CallLogs.load).
DeviceCallLog ==
  << [phoneNumber |-> LogNumA, duration |-> 30000],
     [phoneNumber |-> LogNumB, duration |-> 12000],
     [phoneNumber |-> LogNumA, duration |-> 12000],
     [phoneNumber |-> LogNumZ, duration |-> 600],
     [phoneNumber |-> << >>,   duration |-> 900] >>

LogNumDash == <<"5","5","5","-","1","2","3","-","4","5","6","7">>
LogNumWide == <<"5","5","5"," ","1","2","3"," ","-"," ","4","5","6","7">>
LogNumBlank == <<" ","-">>

\* Entries CallLogs.load can return to the CallLog screen: four spellings of
\* Ann's number, a number of no contact, an empty number and a number that
\* is empty once stripped; name and duration may be absent.
LogEntries ==
  { [phoneNumber |-> LogNumA, duration |-> 30],
    [phoneNumber |-> LogNumDash, duration |-> 45, name |-> "Annie"],
    [phoneNumber |-> NumA1, name |-> "Anna"],
    [phoneNumber |-> LogNumWide, duration |-> 75],
    [phoneNumber |-> LogNumB, duration |-> 75],
    [phoneNumber |-> << >>, duration |-> 20, name |-> "Nobody"],
    [phoneNumber |-> LogNumBlank, duration |-> 10] }

\* The call logs of at most MaxLogLen entries.
LogLists == UNION {[1..n -> LogEntries] : n \in 0..MaxLogLen}

\* Coordinates a random placement or a drag can produce.
Coords == {0, 250}
\* Gesture deltas (dx, dy) measured from the drag start.
Deltas == {-250, 0, 250}

\* ------------------------------------------------------------ pure helpers
Min(a, b) == IF a <= b THEN a ELSE b

StripChars == {" ", "-", "(", ")"}

IsStripped(ch) == ch \in StripChars

Strip(s) == SelectSeq(s, LAMBDA ch : ~IsStripped(ch))

\* String.prototype.slice(-n)
SliceLast(s, n) == IF Len(s) <= n THEN s ELSE SubSeq(s, Len(s) - n + 1, Len(s))

Falsy(p) == p = Undefined \/ p = << >>

normalizePhoneNumber(phoneNumber) ==
  IF Falsy(phoneNumber) THEN << >> ELSE SliceLast(Strip(phoneNumber), 10)

\* The normalized numbers of a contact, empty raw numbers filtered out.
ContactPhoneNumbers(contact) ==
  LET raw == SelectSeq(contact.phoneNumbers, LAMBDA n : ~Falsy(n))
  IN  [i \in DOMAIN raw |-> normalizePhoneNumber(raw[i])]

\* The match of a log entry without the test that skips an entry with no
\* number.
LogMatchesAnyEntry(log, numbers) ==
  \E i \in DOMAIN numbers :
     LET logNumber == normalizePhoneNumber(log.phoneNumber)
     IN  \/ logNumber = numbers[i]
         \/ SliceLast(logNumber, 10) = SliceLast(numbers[i], 10)

LogMatches(log, numbers) ==
  /\ ~Falsy(log.phoneNumber)
  /\ \E i \in DOMAIN numbers :
        LET logNumber == normalizePhoneNumber(log.phoneNumber)
        IN  \/ logNumber = numbers[i]
            \/ SliceLast(logNumber, 10) = SliceLast(numbers[i], 10)

RECURSIVE SumMatching(_, _, _)
SumMatching(logs, numbers, i) ==
  IF i > Len(logs) THEN 0
  ELSE (IF LogMatches(logs[i], numbers) THEN logs[i].duration ELSE 0)
       + SumMatching(logs, numbers, i + 1)

findCallDurationForContact(contact, logs) ==
  IF Len(contact.phoneNumbers) = 0 THEN 0
  ELSE SumMatching(logs, ContactPhoneNumbers(contact), 1)

\* The size formula without the Math.min against MAX_SIZE.
getBubbleSizeUncapped(w, duration) ==
  LET MIN_SIZE == w * 18000
  IN  IF duration = 0 THEN MIN_SIZE ELSE MIN_SIZE + w * duration

\* The size formula with the increase taken per minute, not per 10 minutes.
getBubbleSizePerMinute(w, duration) ==
  LET MIN_SIZE == w * 18000
      MAX_SIZE == w * 60000
  IN  IF duration = 0 THEN MIN_SIZE
      ELSE Min(MIN_SIZE + w * duration * 10, MAX_SIZE)

\* 120000 * getBubbleSize(duration) on a window of width w: the size in
\* units of 1/120000 pixel, so that 0.15, 0.50 and
\* (duration / 60 / 10) * 0.005 stay exact.
getBubbleSizeOn(w, duration) ==
  LET MIN_SIZE == w * 18000
      MAX_SIZE == w * 60000
  IN  IF duration = 0 THEN MIN_SIZE
      ELSE Min(MIN_SIZE + w * duration, MAX_SIZE)

getBubbleSizeScaled(duration) == getBubbleSizeOn(width, duration)

\* The size in pixels (exact for the durations of the device call log).
getBubbleSize(duration) == getBubbleSizeScaled(duration) \div 120000

\* A placement that ignores the size of the bubble.
generateRandomPositionAnywhere(size) == [x : Coords, y : Coords]

\* Math.random() * (width - size) and Math.random() * (height - size).
generateRandomPosition(size) ==
  {p \in [x : Coords, y : Coords] : p.x < width - size /\ p.y < height - size}

FindContact(contacts, contactId) ==
  LET hits == {i \in DOMAIN contacts : contacts[i].id = contactId}
  IN  IF hits = {} THEN 0 ELSE CHOOSE i \in hits : \A j \in hits : i <= j

FirstPhoneNumber(contact) ==
  IF Len(contact.phoneNumbers) > 0 THEN contact.phoneNumbers[1] ELSE Undefined

\* A refresh that pulls a resized bubble back inside the window.
updateBubbleDurationsClamped(prev, contacts, logs) ==
  [i \in DOMAIN prev |->
     LET bubble == prev[i]
         k == FindContact(contacts, bubble.contactId)
     IN  IF k = 0 THEN bubble
         ELSE LET duration == findCallDurationForContact(contacts[k], logs)
                  newSize == getBubbleSize(duration)
              IN  [bubble EXCEPT
                     !.callDuration = duration,
                     !.size = newSize,
                     !.x = Min(bubble.x, width - newSize),
                     !.y = Min(bubble.y, height - newSize),
                     !.phoneNumber = IF ~Falsy(bubble.phoneNumber)
                                     THEN bubble.phoneNumber
                                     ELSE FirstPhoneNumber(contacts[k])]]

\* A refresh that drops the bubbles whose contact is not found.
updateBubbleDurationsDropMissing(prev, contacts, logs) ==
  LET kept == SelectSeq(prev, LAMBDA b : FindContact(contacts, b.contactId) # 0)
  IN  [i \in DOMAIN kept |->
         LET bubble == kept[i]
             k == FindContact(contacts, bubble.contactId)
             duration == findCallDurationForContact(contacts[k], logs)
         IN  [bubble EXCEPT
                !.callDuration = duration,
                !.size = getBubbleSize(duration),
                !.phoneNumber = IF ~Falsy(bubble.phoneNumber)
                                THEN bubble.phoneNumber
                                ELSE FirstPhoneNumber(contacts[k])]]

\* The updater of updateBubbleDurations(logs) with allContacts = contacts.
updateBubbleDurations(prev, contacts, logs) ==
  [i \in DOMAIN prev |->
     LET bubble == prev[i]
         k == FindContact(contacts, bubble.contactId)
     IN  IF k = 0 THEN bubble
         ELSE LET duration == findCallDurationForContact(contacts[k], logs)
              IN  [bubble EXCEPT
                     !.callDuration = duration,
                     !.size = getBubbleSize(duration),
                     !.phoneNumber = IF ~Falsy(bubble.phoneNumber)
                                     THEN bubble.phoneNumber
                                     ELSE FirstPhoneNumber(contacts[k])]]

\* The updater of the phone-number restore effect.
restorePhoneNumbers(prev, contacts) ==
  [i \in DOMAIN prev |->
     LET bubble == prev[i]
         k == FindContact(contacts, bubble.contactId)
     IN  IF ~Falsy(bubble.phoneNumber) THEN bubble
         ELSE IF k # 0 /\ Len(contacts[k].phoneNumbers) > 0
              THEN [bubble EXCEPT !.phoneNumber = contacts[k].phoneNumbers[1]]
              ELSE bubble]

\* bubbleMapRef.current after syncMap(arr): later entries overwrite earlier.
syncMap(arr) ==
  [id \in {arr[i].id : i \in DOMAIN arr} |->
     arr[CHOOSE i \in DOMAIN arr :
           arr[i].id = id /\ \A j \in DOMAIN arr : arr[j].id = id => j <= i]]

\* canMoveTo that also rejects two circles that just touch.
canMoveToRejectTangent(map, id, x, y) ==
  IF id \notin DOMAIN map THEN TRUE
  ELSE LET curr == map[id]
       IN  /\ ~(x < 0 \/ y < 0)
           /\ ~(x + curr.size > width)
           /\ ~(y + curr.size > height)
           /\ \A otherId \in DOMAIN map \ {id} :
                LET b == map[otherId]
                    dx2 == (2 * x + curr.size) - (2 * b.x + b.size)
                    dy2 == (2 * y + curr.size) - (2 * b.y + b.size)
                    minDist2 == curr.size + b.size
                IN  ~(dx2 * dx2 + dy2 * dy2 <= minDist2 * minDist2)

\* canMoveTo without the early return for an id the index does not hold.
canMoveToUnknownRejected(map, id, x, y) ==
  /\ id \in DOMAIN map
  /\ LET curr == map[id]
     IN  /\ ~(x < 0 \/ y < 0)
         /\ ~(x + curr.size > width)
         /\ ~(y + curr.size > height)
         /\ \A otherId \in DOMAIN map \ {id} :
              LET b == map[otherId]
                  dx2 == (2 * x + curr.size) - (2 * b.x + b.size)
                  dy2 == (2 * y + curr.size) - (2 * b.y + b.size)
                  minDist2 == curr.size + b.size
              IN  ~(dx2 * dx2 + dy2 * dy2 < minDist2 * minDist2)

\* canMoveTo with the bubble's size left out of the two far-edge tests.
canMoveToIgnoringSize(map, id, x, y) ==
  IF id \notin DOMAIN map THEN TRUE
  ELSE LET curr == map[id]
       IN  /\ ~(x < 0 \/ y < 0)
           /\ ~(x > width)
           /\ ~(y > height)
           /\ \A otherId \in DOMAIN map \ {id} :
                LET b == map[otherId]
                    dx2 == (2 * x + curr.size) - (2 * b.x + b.size)
                    dy2 == (2 * y + curr.size) - (2 * b.y + b.size)
                    minDist2 == curr.size + b.size
                IN  ~(dx2 * dx2 + dy2 * dy2 < minDist2 * minDist2)

canMoveTo(map, id, x, y) ==
  IF id \notin DOMAIN map THEN TRUE
  ELSE LET curr == map[id]
       IN  /\ ~(x < 0 \/ y < 0)
           /\ ~(x + curr.size > width)
           /\ ~(y + curr.size > height)
           /\ \A otherId \in DOMAIN map \ {id} :
                LET b == map[otherId]
                    \* twice the centre distance and twice the radius sum
                    dx2 == (2 * x + curr.size) - (2 * b.x + b.size)
                    dy2 == (2 * y + curr.size) - (2 * b.y + b.size)
                    minDist2 == curr.size + b.size
                IN  ~(dx2 * dx2 + dy2 * dy2 < minDist2 * minDist2)

\* JSON.stringify drops a key whose value is undefined; JSON.parse gives an
\* object in which reading the missing key yields undefined.
StringifyBubble(b) ==
  IF b.phoneNumber = Undefined
  THEN [k \in DOMAIN b \ {"phoneNumber"} |-> b[k]]
  ELSE b

ParseBubble(j) ==
  [k \in DOMAIN j \cup {"phoneNumber"} |->
     IF k \in DOMAIN j THEN j[k] ELSE Undefined]

JSONStringifyBubbles(arr) == [i \in DOMAIN arr |-> StringifyBubble(arr[i])]

JSONParseBubbles(json) == [i \in DOMAIN json |-> ParseBubble(json[i])]

\* AsyncStorage.getItem of a key that was never set (or was removed): null.
AbsentBubbles == [present |-> FALSE, v |-> << >>]

AbsentIds == [present |-> FALSE, v |-> {}]

PresentValue(value) == [present |-> TRUE, v |-> value]

\* A stored text that is not JSON (written by something other than this app):
\* getItem returns it, it is truthy, and JSON.parse throws on it.
CorruptBubbles == [present |-> TRUE, v |-> << >>, corrupt |-> TRUE]

CorruptIds == [present |-> TRUE, v |-> {}, corrupt |-> TRUE]

\* JSON.parse(item) returns (does not throw).
Parses(item) == "corrupt" \notin DOMAIN item

\* ------------------------------------------------------- saved snapshots
\* A bubble saved by an earlier session (its id carries an older timestamp).
SavedBubble(contactId, name, px, py) ==
  [id |-> [c |-> contactId, t |-> -1], size |-> getBubbleSize(0),
   x |-> px, y |-> py, contactId |-> contactId, contactName |-> name,
   callDuration |-> 0, phoneNumber |-> Undefined]

\* A bubble saved by an earlier session after a duration refresh.
SavedBubbleWith(contactId, name, px, py, duration) ==
  [SavedBubble(contactId, name, px, py) EXCEPT
     !.size = getBubbleSize(duration), !.callDuration = duration]

NoSnapshot == [bubbles |-> AbsentBubbles, ids |-> AbsentIds]

\* Two bubbles placed on the same spot by an earlier session, before the call
\* log was loaded; the contact of the second one has left the device since.
TwoSnapshot ==
  [bubbles |-> PresentValue(JSONStringifyBubbles(
       <<SavedBubble("c1", "Ann", 250, 0), SavedBubble("c2", "Bob", 250, 0)>>)),
   ids |-> PresentValue({"c1", "c2"})]

\* The snapshot of TwoSnapshot with an id list that does not parse.
CorruptIdsSnapshot == [bubbles |-> TwoSnapshot.bubbles, ids |-> CorruptIds]

\* The snapshot of TwoSnapshot with a bubble list that does not parse.
CorruptBubblesSnapshot == [bubbles |-> CorruptBubbles, ids |-> TwoSnapshot.ids]

\* Two bubbles of diameter 100 (12000 s of calls each) whose centres are 120
\* apart, of contacts that are no longer on the device.
HundredSnapshot ==
  [bubbles |-> PresentValue(JSONStringifyBubbles(
       <<SavedBubbleWith("o1", "Old1", 0, 0, 12000),
         SavedBubbleWith("o2", "Old2", 120, 0, 12000)>>)),
   ids |-> PresentValue({"o1", "o2"})]

\* A bubble of diameter 200 and one of diameter 60 on a lower row.
MixedSnapshot ==
  [bubbles |-> PresentValue(JSONStringifyBubbles(
       <<SavedBubbleWith("o1", "Old1", 0, 0, 42000),
         SavedBubble("o2", "Old2", 200, 150)>>)),
   ids |-> PresentValue({"o1", "o2"})]

\* Six bubbles of contacts that are no longer on the device.
SixSnapshot ==
  [bubbles |-> PresentValue(JSONStringifyBubbles(
       <<SavedBubble("o1", "Old1", 0, 0),     SavedBubble("o2", "Old2", 100, 0),
         SavedBubble("o3", "Old3", 200, 0),   SavedBubble("o4", "Old4", 300, 0),
         SavedBubble("o5", "Old5", 0, 100),   SavedBubble("o6", "Old6", 100, 100)>>)),
   ids |-> PresentValue({"o1", "o2", "o3", "o4", "o5", "o6"})]

\* ------------------------------------------------------------------ state
VARIABLES
  bubbles,              \* useState: the ordered bubble list
  selectedContactIds,   \* useState: the set of selected contact ids
  bubbleMap,            \* bubbleMapRef.current: id -> bubble
  allContacts,          \* useState: the loaded contact list
  callLogs,             \* useState: the loaded call log
  showModal,            \* the contact picker is open
  maxLimitModalVisible, \* the limit-reached dialog is open
  contactsPc,           \* loadContacts: "loading" or "granted"
  callLogPc,            \* loadCallLogsForBubbles: "loading" or "done"
  store,                \* AsyncStorage: the two keys
  loadPc,               \* loadBubblesFromStorage: "read1", "read2", "done",
                        \*   or "failed" (ended in its catch block)
  savedBubbles,         \* loadBubblesFromStorage: the result of the first read
  saves,                \* bag of running saveBubblesToStorage calls
  clearPc,              \* clearStorage onPress: "idle", "rm1", "rm2"
  now,                  \* Date.now(), advanced by every add
  base,                 \* Bubble: id -> (baseX.current, baseY.current)
  translate,            \* Bubble: id -> value of the Animated.ValueXY
  dragging,             \* id of the bubble that holds the responder
  lastEvent,            \* history: the drag event just handled, its outcome
                        \*          and the base offset it started from
  touched,              \* history: something other than load / save ran
  store0,               \* history: the store at process start
  cleared,              \* history: clear-all completed, no change since
  platformOS,           \* Platform.OS
  readCallLog,          \* READ_CALL_LOG: "unset", "granted", "denied" or
                        \*   "never_ask_again"
  callLogLoads,         \* history: number of CallLogs.load invocations
  deviceLog,            \* what CallLogs.load resolves to
  permissionStatus,     \* CallLog: useState permissionStatus
  aggregatedLogs,       \* CallLog: useState aggregatedLogs
  contactList,          \* loadCallLogs: the list loadContacts returned
  logPc,                \* CallLog: "check", "request", "load", "contacts",
                        \*   "group", "done", or "stopped" (no list was set)
  screenLogs,           \* loadCallLogs: logs, the loaded call log
  groupedMap,           \* loadCallLogs: the groups in insertion order
  logIndex,             \* loadCallLogs: the entry forEach visits next
  mounts,               \* number of times the CallLog screen was mounted
  firstRun,             \* history: input and result of the first aggregation
  activeDeleteBubbleId, \* useState: bubble whose delete button is shown
  deleteButtonTimeoutRef, \* deleteButtonTimeoutRef.current: handle or 0
  timers,               \* handles of the pending setTimeout callbacks
  timerSeq,             \* the handle the next setTimeout returns
  deleteButtonShownFor, \* Date.now() - deleteButtonShowTimeRef.current, or
                        \*   NotShown when the ref holds null
  deleteModalVisible,   \* useState: the delete confirmation is open
  contactToDelete       \* useState: the contact to delete, or NoContact

\* The permission gate, the CallLog screen, the delete button of a bubble.
gateVars == <<platformOS, readCallLog, callLogLoads>>

logVars == <<deviceLog, permissionStatus, aggregatedLogs, contactList, logPc,
             screenLogs, groupedMap, logIndex, mounts, firstRun>>

deleteVars == <<activeDeleteBubbleId, deleteButtonTimeoutRef, timers, timerSeq,
               deleteButtonShownFor, deleteModalVisible, contactToDelete>>

\* The state of the Contacts screen without the delete button.
contactsVars == <<bubbles, selectedContactIds, bubbleMap, allContacts, callLogs,
                  showModal, maxLimitModalVisible, contactsPc, callLogPc, store,
                  loadPc, savedBubbles, saves, clearPc, now, base, translate,
                  dragging, lastEvent, touched, store0, cleared>>

vars == <<contactsVars, gateVars, logVars, deleteVars>>

NoDrag == [c |-> "", t |-> -2]

\* deleteButtonShowTimeRef.current is null.
NotShown == -1

\* contactToDelete is null.
NoContact == [id |-> "", name |-> ""]

NoEvent == [kind |-> "none", id |-> NoDrag, origin |-> [x |-> 0, y |-> 0],
            delta |-> [x |-> 0, y |-> 0]]

Ids(arr) == {arr[i].id : i \in DOMAIN arr}

BubbleOf(arr, id) == arr[CHOOSE i \in DOMAIN arr : arr[i].id = id]

\* A bubble component is keyed by id: a new id mounts a component whose base
\* and translate start at (startX, startY); a component that stays mounted
\* keeps its refs; a removed id unmounts.
Mounted(refs, arr) ==
  [id \in Ids(arr) |->
     IF id \in DOMAIN refs THEN refs[id]
     ELSE [x |-> BubbleOf(arr, id).x, y |-> BubbleOf(arr, id).y]]

SaveProc(b, ids) == [pc |-> "w1", bubbles |-> b, ids |-> ids]

HasPhoneChanges(prev, contacts) ==
  \E i \in DOMAIN prev :
     /\ Falsy(prev[i].phoneNumber)
     /\ FindContact(contacts, prev[i].contactId) # 0
     /\ Len(contacts[FindContact(contacts, prev[i].contactId)].phoneNumbers) > 0

\* An index that is only written by the handlers' own syncMap calls: the
\* updaters of the two effects do not call syncMap.
IndexWithoutMemo(b1, b3) == syncMap(b1)

\* The index when the renders are over: every render whose list changed runs
\* syncMap on it; b1 is the list the handler set, b3 the list after the
\* updaters of the effects.
IndexAfterRender(b1, b3) == syncMap(b3)

\* The render that follows a handler and the effects it runs.  b1, sel1, con1,
\* log1 are the state values the handler set; bRef, sRef, cRef, lRef tell
\* which of them the handler replaced by a new object (an effect runs when a
\* dependency is a new object, whatever its content).  The save effect runs
\* first; the duration effect and the phone-number effect then queue their
\* updaters, and the render they cause runs the save effect once more.
Commit(b1, sel1, con1, log1, bRef, sRef, cRef, lRef, base1, tr1, drag1) ==
  LET durFire == (lRef \/ cRef) /\ Len(log1) > 0 /\ Len(b1) > 0
      b2 == IF durFire THEN updateBubbleDurations(b1, con1, log1) ELSE b1
      phoneFire == /\ cRef \/ Len(b1) # Len(bubbles)
                   /\ Len(con1) > 0 /\ Len(b1) > 0
      hasChanges == phoneFire /\ HasPhoneChanges(b2, con1)
      b3 == IF hasChanges THEN restorePhoneNumbers(b2, con1) ELSE b2
      s1 == IF bRef \/ sRef THEN SetToBag({SaveProc(b1, sel1)}) ELSE EmptyBag
      s2 == IF durFire \/ hasChanges
            THEN SetToBag({SaveProc(b3, sel1)}) ELSE EmptyBag
  IN  /\ bubbles' = b3
      /\ selectedContactIds' = sel1
      /\ allContacts' = con1
      /\ callLogs' = log1
      /\ bubbleMap' = IndexAfterRender(b1, b3)
      /\ saves' = saves (+) s1 (+) s2
      /\ base' = Mounted(base1, b3)
      /\ translate' = Mounted(tr1, b3)
      /\ dragging' = IF drag1 \in Ids(b3) THEN drag1 ELSE NoDrag

NoModal == ~showModal /\ ~maxLimitModalVisible /\ ~deleteModalVisible

\* An event from outside the store (a touch, the contacts, the call log)
\* arrives while fewer than MaxSaves saves are running; the continuations of
\* storage requests are never delayed.
UserReady == BagCardinality(saves) < MaxSaves

\* ------------------------------------------------------------------- init
\* The state after the first render: the mount effect has called
\* loadBubblesFromStorage, loadContacts and loadCallLogsForBubbles, and the
\* save effect has called saveBubblesToStorage with the empty initial state.
InitContacts(stores, start) ==
  /\ bubbles = << >>
  /\ selectedContactIds = {}
  /\ bubbleMap = syncMap(<< >>)
  /\ allContacts = << >>
  /\ callLogs = << >>
  /\ showModal = FALSE
  /\ maxLimitModalVisible = FALSE
  /\ contactsPc = "loading"
  /\ callLogPc = "loading"
  /\ store \in stores
  /\ loadPc = "read1"
  /\ savedBubbles = AbsentBubbles
  /\ saves = SetToBag({SaveProc(<< >>, {})})
  /\ clearPc = "idle"
  /\ now = start
  /\ base = Mounted(<< >>, << >>)
  /\ translate = Mounted(<< >>, << >>)
  /\ dragging = NoDrag
  /\ lastEvent = NoEvent
  /\ touched = FALSE
  /\ store0 = store
  /\ cleared = FALSE
  /\ activeDeleteBubbleId = NoDrag
  /\ deleteButtonTimeoutRef = 0
  /\ timers = {}
  /\ timerSeq = 1
  /\ deleteButtonShownFor = NotShown
  /\ deleteModalVisible = FALSE
  /\ contactToDelete = NoContact

NoRun == [logs |-> << >>, contactList |-> << >>, aggregated |-> << >>,
          done |-> FALSE]

\* The device and the CallLog screen after its first render, the mount effect
\* about to run requestCallLogPermission.
InitCallLog(platforms, permissions, deviceLogs) ==
  /\ platformOS \in platforms
  /\ readCallLog \in permissions
  /\ callLogLoads = 0
  /\ deviceLog \in deviceLogs
  /\ permissionStatus = "checking"
  /\ aggregatedLogs = << >>
  /\ contactList = << >>
  /\ logPc = "check"
  /\ screenLogs = << >>
  /\ groupedMap = << >>
  /\ logIndex = 1
  /\ mounts = 1
  /\ firstRun = NoRun

\* An Android device that has granted READ_CALL_LOG.
InitWith(stores, start) ==
  /\ InitContacts(stores, start)
  /\ InitCallLog({"android"}, {"granted"}, {DeviceCallLog})

Init == InitWith({NoSnapshot, TwoSnapshot}, 1)

\* ------------------------------------------------------------ persistence
\* saveBubblesToStorage: the first setItem of one running save takes effect.
SaveWrite1 ==
  \E p \in BagToSet(saves) :
     /\ p.pc = "w1"
     /\ store' = [store EXCEPT
                    !.bubbles = PresentValue(JSONStringifyBubbles(p.bubbles))]
     /\ saves' = (saves (-) SetToBag({p})) (+) SetToBag({[p EXCEPT !.pc = "w2"]})
     /\ lastEvent' = NoEvent
     /\ UNCHANGED <<bubbles, selectedContactIds, bubbleMap, allContacts,
                    callLogs, showModal, maxLimitModalVisible, contactsPc,
                    callLogPc, loadPc, savedBubbles, clearPc, now, base,
                    translate, dragging, touched, store0, cleared>>
  /\ UNCHANGED <<gateVars, logVars, deleteVars>>

\* saveBubblesToStorage: the second setItem takes effect and the save ends.
SaveWrite2 ==
  \E p \in BagToSet(saves) :
     /\ p.pc = "w2"
     /\ store' = [store EXCEPT !.ids = PresentValue(p.ids)]
     /\ saves' = saves (-) SetToBag({p})
     /\ lastEvent' = NoEvent
     /\ UNCHANGED <<bubbles, selectedContactIds, bubbleMap, allContacts,
                    callLogs, showModal, maxLimitModalVisible, contactsPc,
                    callLogPc, loadPc, savedBubbles, clearPc, now, base,
                    translate, dragging, touched, store0, cleared>>
  /\ UNCHANGED <<gateVars, logVars, deleteVars>>

WriteFailed == [kind |-> "writeFailed", id |-> NoDrag,
                origin |-> [x |-> 0, y |-> 0], delta |-> [x |-> 0, y |-> 0]]

\* saveBubblesToStorage: the first setItem rejects; the catch block logs and
\* the second setItem is never issued.
SaveWrite1Fails ==
  \E p \in BagToSet(saves) :
     /\ p.pc = "w1"
     /\ saves' = saves (-) SetToBag({p})
     /\ lastEvent' = WriteFailed
     /\ UNCHANGED <<bubbles, selectedContactIds, bubbleMap, allContacts,
                    callLogs, showModal, maxLimitModalVisible, contactsPc,
                    callLogPc, store, loadPc, savedBubbles, clearPc, now, base,
                    translate, dragging, touched, store0, cleared>>
  /\ UNCHANGED <<gateVars, logVars, deleteVars>>

\* saveBubblesToStorage: the second setItem rejects; the catch block logs.
SaveWrite2Fails ==
  \E p \in BagToSet(saves) :
     /\ p.pc = "w2"
     /\ saves' = saves (-) SetToBag({p})
     /\ lastEvent' = WriteFailed
     /\ UNCHANGED <<bubbles, selectedContactIds, bubbleMap, allContacts,
                    callLogs, showModal, maxLimitModalVisible, contactsPc,
                    callLogPc, store, loadPc, savedBubbles, clearPc, now, base,
                    translate, dragging, touched, store0, cleared>>
  /\ UNCHANGED <<gateVars, logVars, deleteVars>>

\* loadBubblesFromStorage: getItem(STORAGE_KEY) resolves.
LoadRead1 ==
  /\ loadPc = "read1"
  /\ savedBubbles' = store.bubbles
  /\ loadPc' = "read2"
  /\ lastEvent' = NoEvent
  /\ UNCHANGED <<bubbles, selectedContactIds, bubbleMap, allContacts, callLogs,
                 showModal, maxLimitModalVisible, contactsPc, callLogPc, store,
                 saves, clearPc, now, base, translate, dragging,
                 touched, store0, cleared>>
  /\ UNCHANGED <<gateVars, logVars, deleteVars>>

\* loadBubblesFromStorage: getItem(SELECTED_CONTACTS_KEY) resolves and the
\* parsed values are put into the state.  A JSON.parse that throws ends the
\* function in its catch block: the setBubbles called before the throw stays.
LoadRead2 ==
  /\ loadPc = "read2"
  /\ LET savedContactIds == store.ids
         bubblesThrow == savedBubbles.present /\ ~Parses(savedBubbles)
         idsThrow == savedContactIds.present /\ ~Parses(savedContactIds)
         setB == savedBubbles.present /\ ~bubblesThrow
         setS == savedContactIds.present /\ ~bubblesThrow /\ ~idsThrow
         b1 == IF setB THEN JSONParseBubbles(savedBubbles.v) ELSE bubbles
         sel1 == IF setS THEN savedContactIds.v ELSE selectedContactIds
     IN  /\ Commit(b1, sel1, allContacts, callLogs,
                   setB, setS, FALSE, FALSE, base, translate, dragging)
         /\ cleared' = (cleared /\ ~setB /\ ~setS)
         /\ loadPc' = IF bubblesThrow \/ idsThrow THEN "failed" ELSE "done"
  /\ lastEvent' = NoEvent
  /\ UNCHANGED <<showModal, maxLimitModalVisible, contactsPc, callLogPc, store,
                 savedBubbles, clearPc, now, touched, store0>>
  /\ UNCHANGED <<gateVars, logVars, deleteVars>>

\* loadBubblesFromStorage: getItem(STORAGE_KEY) rejects; the catch block logs.
LoadRead1Fails ==
  /\ loadPc = "read1"
  /\ loadPc' = "failed"
  /\ lastEvent' = NoEvent
  /\ UNCHANGED <<bubbles, selectedContactIds, bubbleMap, allContacts, callLogs,
                 showModal, maxLimitModalVisible, contactsPc, callLogPc, store,
                 savedBubbles, saves, clearPc, now, base, translate, dragging,
                 touched, store0, cleared>>
  /\ UNCHANGED <<gateVars, logVars, deleteVars>>

\* loadBubblesFromStorage: getItem(SELECTED_CONTACTS_KEY) rejects; nothing has
\* been set yet and the catch block logs.
LoadRead2Fails ==
  /\ loadPc = "read2"
  /\ loadPc' = "failed"
  /\ lastEvent' = NoEvent
  /\ UNCHANGED <<bubbles, selectedContactIds, bubbleMap, allContacts, callLogs,
                 showModal, maxLimitModalVisible, contactsPc, callLogPc, store,
                 savedBubbles, saves, clearPc, now, base, translate, dragging,
                 touched, store0, cleared>>
  /\ UNCHANGED <<gateVars, logVars, deleteVars>>

\* clearStorage: the user confirms the alert; removeItem(STORAGE_KEY) is issued,
\* also while up to MaxSaves saves are running.
ClearPress ==
  /\ NoModal /\ dragging = NoDrag
  /\ BagCardinality(saves) <= MaxSaves
  /\ clearPc = "idle"
  /\ clearPc' = "rm1"
  /\ lastEvent' = NoEvent
  /\ touched' = TRUE
  /\ UNCHANGED <<bubbles, selectedContactIds, bubbleMap, allContacts, callLogs,
                 showModal, maxLimitModalVisible, contactsPc, callLogPc, store,
                 loadPc, savedBubbles, saves, now, base, translate, dragging,
                 store0, cleared>>
  /\ UNCHANGED <<gateVars, logVars, deleteVars>>

\* clearStorage: removeItem(STORAGE_KEY) takes effect.
ClearRemove1 ==
  /\ clearPc = "rm1"
  /\ store' = [store EXCEPT !.bubbles = AbsentBubbles]
  /\ clearPc' = "rm2"
  /\ lastEvent' = NoEvent
  /\ UNCHANGED <<bubbles, selectedContactIds, bubbleMap, allContacts, callLogs,
                 showModal, maxLimitModalVisible, contactsPc, callLogPc, loadPc,
                 savedBubbles, saves, now, base, translate, dragging,
                 touched, store0, cleared>>
  /\ UNCHANGED <<gateVars, logVars, deleteVars>>

\* clearStorage: removeItem(SELECTED_CONTACTS_KEY) takes effect, then the list
\* and the selection are emptied.
ClearRemove2 ==
  /\ clearPc = "rm2"
  /\ store' = [store EXCEPT !.ids = AbsentIds]
  /\ Commit(<< >>, {}, allContacts, callLogs, TRUE, TRUE, FALSE, FALSE,
            base, translate, dragging)
  /\ clearPc' = "idle"
  /\ cleared' = TRUE
  /\ lastEvent' = NoEvent
  /\ UNCHANGED <<showModal, maxLimitModalVisible, contactsPc, callLogPc, loadPc,
                 savedBubbles, now, touched, store0>>
  /\ UNCHANGED <<gateVars, logVars, deleteVars>>

\* ------------------------------------------------------------ data sources
\* loadContacts resolves with the permission granted: the contacts are set.
LoadContactsDone ==
  /\ contactsPc = "loading"
  /\ UserReady
  /\ contactsPc' = "granted"
  /\ Commit(bubbles, selectedContactIds, DeviceContacts, callLogs,
            FALSE, FALSE, TRUE, FALSE, base, translate, dragging)
  /\ cleared' = (cleared /\ bubbles' = bubbles)
  /\ lastEvent' = NoEvent
  /\ touched' = TRUE
  /\ UNCHANGED <<showModal, maxLimitModalVisible, callLogPc, store, loadPc,
                 savedBubbles, clearPc, now, store0>>
  /\ UNCHANGED <<gateVars, logVars, deleteVars>>

\* A gate that lets the load through whatever the request returned.
GateOpenAlways(status, answer) == TRUE

\* The permission gate: check returned true, or the request returned
\* PermissionsAndroid.RESULTS.GRANTED.
GateOpen(status, answer) == status = "granted" \/ answer = "granted"

\* What PermissionsAndroid.request can return; it is not called (and the
\* permission stays granted) when check returned true.
RequestAnswers(status) ==
  IF status = "granted" THEN {"granted"}
  ELSE {"granted", "denied", "never_ask_again"}

\* loadCallLogsForBubbles resolves: off Android it returns at once; else
\* check, the request when check is false, and the load behind the gate.
\* loadCallLogsForBubbles resolves.  With the log loaded it calls setCallLogs
\* and the updateBubbleDurations of the first render, whose allContacts is
\* the empty initial list; the duration effect then runs with the current one.
LoadCallLogsDone ==
  /\ callLogPc = "loading"
  /\ UserReady
  /\ callLogPc' = "done"
  /\ \E answer \in RequestAnswers(readCallLog), loadFails \in BOOLEAN :
       LET android == platformOS = "android"
           granted == android /\ GateOpen(readCallLog, answer)
           loaded == granted /\ ~loadFails
       IN  /\ readCallLog' = IF android THEN answer ELSE readCallLog
           /\ callLogLoads' = callLogLoads + (IF granted THEN 1 ELSE 0)
           /\ IF loaded
              THEN /\ Commit(updateBubbleDurations(bubbles, << >>, deviceLog),
                             selectedContactIds, allContacts, deviceLog,
                             TRUE, FALSE, FALSE, TRUE, base, translate,
                             dragging)
                   /\ cleared' = (cleared /\ bubbles' = bubbles)
              ELSE UNCHANGED <<bubbles, selectedContactIds, bubbleMap,
                               allContacts, callLogs, saves, base, translate,
                               dragging, cleared>>
  /\ lastEvent' = NoEvent
  /\ touched' = TRUE
  /\ UNCHANGED <<showModal, maxLimitModalVisible, contactsPc, store, loadPc,
                 savedBubbles, clearPc, now, store0>>
  /\ UNCHANGED <<platformOS, deviceLog, permissionStatus, aggregatedLogs,
                 contactList, logPc, screenLogs, groupedMap, logIndex, mounts,
                 firstRun, deleteVars>>

\* ------------------------------------------------------------ add / remove
\* The "+" button: the picker opens unless seven bubbles exist.
HandleAddContactPress ==
  /\ NoModal /\ dragging = NoDrag
  /\ IF Len(bubbles) >= 7
     THEN maxLimitModalVisible' = TRUE /\ UNCHANGED showModal
     ELSE showModal' = TRUE /\ UNCHANGED maxLimitModalVisible
  /\ lastEvent' = NoEvent
  /\ touched' = TRUE
  /\ UNCHANGED <<bubbles, selectedContactIds, bubbleMap, allContacts, callLogs,
                 contactsPc, callLogPc, store, loadPc, savedBubbles, saves,
                 clearPc, now, base, translate, dragging, store0, cleared>>
  /\ UNCHANGED <<gateVars, logVars, deleteVars>>

CloseMaxLimitModal ==
  /\ maxLimitModalVisible
  /\ maxLimitModalVisible' = FALSE
  /\ lastEvent' = NoEvent
  /\ UNCHANGED <<bubbles, selectedContactIds, bubbleMap, allContacts, callLogs,
                 showModal, contactsPc, callLogPc, store, loadPc, savedBubbles,
                 saves, clearPc, now, base, translate, dragging,
                 touched, store0, cleared>>
  /\ UNCHANGED <<gateVars, logVars, deleteVars>>

\* The Done button of the picker.
CloseModal ==
  /\ showModal
  /\ showModal' = FALSE
  /\ lastEvent' = NoEvent
  /\ UNCHANGED <<bubbles, selectedContactIds, bubbleMap, allContacts, callLogs,
                 maxLimitModalVisible, contactsPc, callLogPc, store, loadPc,
                 savedBubbles, saves, clearPc, now, base, translate, dragging,
                 touched, store0, cleared>>
  /\ UNCHANGED <<gateVars, logVars, deleteVars>>

\* A new bubble that always gets the minimum size.
NewBubbleMinSize(contact, position, duration) ==
  [id |-> [c |-> contact.id, t |-> now],
   size |-> getBubbleSize(0),
   x |-> position.x, y |-> position.y,
   contactId |-> contact.id,
   contactName |-> contact.name,
   callDuration |-> duration,
   phoneNumber |-> FirstPhoneNumber(contact)]

NewBubble(contact, position, duration) ==
  [id |-> [c |-> contact.id, t |-> now],
   size |-> getBubbleSize(duration),
   x |-> position.x, y |-> position.y,
   contactId |-> contact.id,
   contactName |-> contact.name,
   callDuration |-> duration,
   phoneNumber |-> FirstPhoneNumber(contact)]

addContactToBubbles(contact) ==
  LET duration == IF Len(callLogs) > 0
                  THEN findCallDurationForContact(contact, callLogs) ELSE 0
  IN  /\ now <= MaxAdds
      /\ \E position \in generateRandomPosition(getBubbleSize(duration)) :
            Commit(Append(bubbles, NewBubble(contact, position, duration)),
                   selectedContactIds \cup {contact.id}, allContacts, callLogs,
                   TRUE, TRUE, FALSE, FALSE, base, translate, dragging)
      /\ now' = now + 1
      /\ cleared' = FALSE

\* A filter that compares the wrong field of the bubble.
removeFromListByName(prev, contactId) ==
  SelectSeq(prev, LAMBDA b : b.contactName # contactId)

\* removeBubble: the updater given to setBubbles.
removeFromList(prev, contactId) ==
  SelectSeq(prev, LAMBDA b : b.contactId # contactId)

\* An updater that empties the selection.
removeFromSelectionAll(prev, contactId) == {}

\* removeBubble: the updater given to setSelectedContactIds.
removeFromSelection(prev, contactId) == prev \ {contactId}

removeBubble(contactId) ==
  /\ Commit(removeFromList(bubbles, contactId),
            removeFromSelection(selectedContactIds, contactId),
            allContacts, callLogs,
            TRUE, TRUE, FALSE, FALSE, base, translate, dragging)
  /\ now' = now
  /\ cleared' = (cleared /\ bubbles' = bubbles
                         /\ selectedContactIds' = selectedContactIds)

\* renderContactItem onPress: a tap on a row of the picker.
PickerTap ==
  /\ showModal /\ contactsPc = "granted" /\ dragging = NoDrag
  /\ UserReady
  /\ \E i \in DOMAIN allContacts :
       LET item == allContacts[i]
           isSelected == item.id \in selectedContactIds
       IN  IF isSelected THEN removeBubble(item.id)
           ELSE addContactToBubbles(item)
  /\ lastEvent' = NoEvent
  /\ touched' = TRUE
  /\ UNCHANGED <<showModal, maxLimitModalVisible, contactsPc, callLogPc, store,
                 loadPc, savedBubbles, clearPc, store0>>
  /\ UNCHANGED <<gateVars, logVars, deleteVars>>

\* ------------------------------------------------------------------- drag
\* An updater that gives the new position to every bubble.
onChangeMovingAll(prev, id, x, y) ==
  [i \in DOMAIN prev |-> [prev[i] EXCEPT !.x = x, !.y = y]]

onChange(prev, id, x, y) ==
  [i \in DOMAIN prev |->
     IF prev[i].id = id THEN [prev[i] EXCEPT !.x = x, !.y = y] ELSE prev[i]]

\* onPanResponderGrant: a bubble takes the responder.
PanGrant ==
  /\ NoModal /\ dragging = NoDrag
  /\ \E id \in Ids(bubbles) : dragging' = id
  /\ lastEvent' = NoEvent
  /\ touched' = TRUE
  /\ UNCHANGED <<bubbles, selectedContactIds, bubbleMap, allContacts, callLogs,
                 showModal, maxLimitModalVisible, contactsPc, callLogPc, store,
                 loadPc, savedBubbles, saves, clearPc, now, base, translate,
                 store0, cleared>>
  /\ UNCHANGED <<gateVars, logVars, deleteVars>>

\* The value tryMoveTo returns for a candidate.
tryMoveToAllowed(id, candX, candY) == canMoveTo(bubbleMap, id, candX, candY)

\* A candidate measured from the position the bubble shows now.
CandidateFromShown(id, dx, dy) ==
  [x |-> translate[id].x + dx, y |-> translate[id].y + dy]

\* candX = baseX.current + gesture.dx, candY = baseY.current + gesture.dy.
Candidate(id, dx, dy) == [x |-> base[id].x + dx, y |-> base[id].y + dy]

\* onPanResponderMove: tryMoveTo(base + delta).
PanMove ==
  /\ dragging # NoDrag
  /\ UserReady
  /\ \E dx \in Deltas, dy \in Deltas :
       LET id == dragging
           candX == Candidate(id, dx, dy).x
           candY == Candidate(id, dx, dy).y
           allowed == tryMoveToAllowed(id, candX, candY)
       IN  /\ Commit(IF allowed THEN onChange(bubbles, id, candX, candY)
                                ELSE bubbles,
                     selectedContactIds, allContacts, callLogs,
                     allowed, FALSE, FALSE, FALSE,
                     base,
                     IF allowed
                     THEN [translate EXCEPT ![id] = [x |-> candX, y |-> candY]]
                     ELSE translate,
                     dragging)
           /\ lastEvent' = [kind |-> IF allowed THEN "moveAccepted"
                                                 ELSE "moveRejected",
                            id |-> id, origin |-> base[id],
                            delta |-> [x |-> dx, y |-> dy]]
           /\ cleared' = (cleared /\ ~allowed)
  /\ touched' = TRUE
  /\ UNCHANGED <<showModal, maxLimitModalVisible, contactsPc, callLogPc, store,
                 loadPc, savedBubbles, clearPc, now, store0>>
  /\ UNCHANGED <<gateVars, logVars, deleteVars>>

\* A release that stores the raw candidate whether or not it was accepted.
ReleaseBaseCandidate(moved, cand, shown) == cand

\* The base offset onPanResponderRelease stores: the candidate when it moved,
\* else the value the Animated.ValueXY shows.
ReleaseBase(moved, cand, shown) == IF moved THEN cand ELSE shown

\* onPanResponderRelease: tryMoveTo(base + delta), the base offset is set and
\* the spring settles the translate value on it.
PanRelease ==
  /\ dragging # NoDrag
  /\ UserReady
  /\ \E dx \in Deltas, dy \in Deltas :
       LET id == dragging
           cand == Candidate(id, dx, dy)
           moved == tryMoveToAllowed(id, cand.x, cand.y)
           shown == IF moved THEN cand ELSE translate[id]
           base1 == [base EXCEPT ![id] = ReleaseBase(moved, cand, shown)]
           tr1 == [translate EXCEPT ![id] = base1[id]]
       IN  /\ Commit(IF moved THEN onChange(bubbles, id, cand.x, cand.y)
                              ELSE bubbles,
                     selectedContactIds, allContacts, callLogs,
                     moved, FALSE, FALSE, FALSE, base1, tr1, NoDrag)
           /\ lastEvent' = [kind |-> IF moved THEN "releaseAccepted"
                                               ELSE "releaseRejected",
                            id |-> id, origin |-> base[id],
                            delta |-> [x |-> dx, y |-> dy]]
           /\ cleared' = (cleared /\ ~moved)
  /\ touched' = TRUE
  /\ UNCHANGED <<showModal, maxLimitModalVisible, contactsPc, callLogPc, store,
                 loadPc, savedBubbles, clearPc, now, store0>>
  /\ UNCHANGED <<gateVars, logVars, deleteVars>>

\* ----------------------------------------------------------- specification
\* ---------------------------------------------------------- delete button
\* A hide that leaves the armed timer pending.
pendingAfterHideKept(pending, ref) == pending

\* hideDeleteButton: clearTimeout(deleteButtonTimeoutRef.current) when the
\* ref holds a handle.
pendingAfterHide(pending, ref) == IF ref # 0 THEN pending \ {ref} ELSE pending

\* The time the 100 ms test of handleScreenTap compares with.
TapDelay == 100

\* The delay of the auto-hide timer.
AutoHide == 5000

\* Times since the button was shown at which something can happen.
ElapsedTimes == {0, TapDelay, TapDelay + 1, AutoHide}

\* hideDeleteButton.
hideDeleteButton(pending) ==
  /\ activeDeleteBubbleId' = NoDrag
  /\ deleteButtonShownFor' = NotShown
  /\ timers' = pendingAfterHide(pending, deleteButtonTimeoutRef)
  /\ deleteButtonTimeoutRef' = 0

\* showDeleteButtonForBubble(bubbleId), given to every Bubble as
\* onDeleteButtonShow: hideDeleteButton, then the id is set, the time is
\* taken and a timer of 5 seconds is armed.
ShowDeleteButtonForBubble ==
  /\ NoModal
  /\ timerSeq <= MaxShows
  /\ \E bubbleId \in Ids(bubbles) : activeDeleteBubbleId' = bubbleId
  /\ deleteButtonShownFor' = 0
  /\ timers' = pendingAfterHide(timers, deleteButtonTimeoutRef) \cup {timerSeq}
  /\ deleteButtonTimeoutRef' = timerSeq
  /\ timerSeq' = timerSeq + 1
  /\ UNCHANGED <<deleteModalVisible, contactToDelete>>
  /\ UNCHANGED <<contactsVars, gateVars, logVars>>

\* Time passes while the button is shown.
TimePasses ==
  /\ deleteButtonShownFor # NotShown
  /\ \E t \in ElapsedTimes :
       t > deleteButtonShownFor /\ deleteButtonShownFor' = t
  /\ UNCHANGED <<activeDeleteBubbleId, deleteButtonTimeoutRef, timers, timerSeq,
                 deleteModalVisible, contactToDelete>>
  /\ UNCHANGED <<contactsVars, gateVars, logVars>>

\* A pending timer fires, the one of the last show 5 seconds after it: its
\* callback runs hideDeleteButton.
DeleteTimerFires ==
  /\ \E handle \in timers :
       /\ handle = deleteButtonTimeoutRef => deleteButtonShownFor = AutoHide
       /\ hideDeleteButton(timers \ {handle})
  /\ lastEvent' = [NoEvent EXCEPT !.kind = "timerFired"]
  /\ UNCHANGED <<timerSeq, deleteModalVisible, contactToDelete>>
  /\ UNCHANGED <<bubbles, selectedContactIds, bubbleMap, allContacts, callLogs,
                 showModal, maxLimitModalVisible, contactsPc, callLogPc, store,
                 loadPc, savedBubbles, saves, clearPc, now, base, translate,
                 dragging, touched, store0, cleared>>
  /\ UNCHANGED <<gateVars, logVars>>

\* The screen loses the focus: the cleanup of useFocusEffect runs
\* hideDeleteButton.
ScreenBlur ==
  /\ hideDeleteButton(timers)
  /\ UNCHANGED <<timerSeq, deleteModalVisible, contactToDelete>>
  /\ UNCHANGED <<contactsVars, gateVars, logVars>>

\* A test that lets every tap hide the button.
shownLongEnoughAlways(shownFor) == shownFor # NotShown

\* deleteButtonShowTimeRef.current &&
\* Date.now() - deleteButtonShowTimeRef.current > 100
shownLongEnough(shownFor) == shownFor # NotShown /\ shownFor > TapDelay

\* handleScreenTap: a press on the screen outside the bubbles.
HandleScreenTap ==
  /\ NoModal
  /\ IF shownLongEnough(deleteButtonShownFor)
     THEN hideDeleteButton(timers)
     ELSE UNCHANGED <<activeDeleteBubbleId, deleteButtonShownFor, timers,
                      deleteButtonTimeoutRef>>
  /\ lastEvent' = [NoEvent EXCEPT !.kind = "screenTap"]
  /\ UNCHANGED <<timerSeq, deleteModalVisible, contactToDelete>>
  /\ UNCHANGED <<bubbles, selectedContactIds, bubbleMap, allContacts, callLogs,
                 showModal, maxLimitModalVisible, contactsPc, callLogPc, store,
                 loadPc, savedBubbles, saves, clearPc, now, base, translate,
                 dragging, touched, store0, cleared>>
  /\ UNCHANGED <<gateVars, logVars>>

\* ------------------------------------------------------ delete confirmation
\* bubbles.find(b => b.contactId === contactId)?.contactName || 'Unknown'
contactNameOf(arr, contactId) ==
  LET found == {i \in DOMAIN arr : arr[i].contactId = contactId}
      first == CHOOSE i \in found : \A j \in found : i <= j
  IN  IF found = {} \/ arr[first].contactName = "" THEN "Unknown"
      ELSE arr[first].contactName

\* A pending contact that is always the one of the first bubble.
pendingContactFirst(arr, contactId) ==
  [id |-> arr[1].contactId, name |-> contactNameOf(arr, arr[1].contactId)]

\* The value handleDeleteBubble gives to setContactToDelete.
pendingContact(arr, contactId) ==
  [id |-> contactId, name |-> contactNameOf(arr, contactId)]

\* handleDeleteBubble(b.contactId), given to every Bubble as onDelete.
HandleDeleteBubble ==
  /\ NoModal /\ dragging = NoDrag
  /\ \E i \in DOMAIN bubbles :
       /\ contactToDelete' = pendingContact(bubbles, bubbles[i].contactId)
       /\ lastEvent' = [NoEvent EXCEPT !.kind = "deleteRequest",
                                       !.id = bubbles[i].id]
  /\ deleteModalVisible' = TRUE
  /\ hideDeleteButton(timers)
  /\ UNCHANGED timerSeq
  /\ UNCHANGED <<bubbles, selectedContactIds, bubbleMap, allContacts, callLogs,
                 showModal, maxLimitModalVisible, contactsPc, callLogPc, store,
                 loadPc, savedBubbles, saves, clearPc, now, base, translate,
                 dragging, touched, store0, cleared>>
  /\ UNCHANGED <<gateVars, logVars>>

\* confirmDelete, the Delete button of the confirmation; as a function of
\* the component it is modelled as callable in every state.
ConfirmDelete ==
  /\ UserReady
  /\ IF contactToDelete # NoContact
     THEN /\ removeBubble(contactToDelete.id)
          /\ deleteModalVisible' = FALSE
          /\ contactToDelete' = NoContact
     ELSE UNCHANGED <<bubbles, selectedContactIds, bubbleMap, allContacts,
                      callLogs, saves, base, translate, dragging, now, cleared,
                      deleteModalVisible, contactToDelete>>
  /\ lastEvent' = [NoEvent EXCEPT !.kind = "confirmDelete"]
  /\ touched' = TRUE
  /\ UNCHANGED <<showModal, maxLimitModalVisible, contactsPc, callLogPc, store,
                 loadPc, savedBubbles, clearPc, store0>>
  /\ UNCHANGED <<activeDeleteBubbleId, deleteButtonTimeoutRef, timers, timerSeq,
                 deleteButtonShownFor>>
  /\ UNCHANGED <<gateVars, logVars>>

\* cancelDelete, the Cancel button and onRequestClose of the confirmation.
CancelDelete ==
  /\ deleteModalVisible' = FALSE
  /\ contactToDelete' = NoContact
  /\ lastEvent' = [NoEvent EXCEPT !.kind = "cancelDelete"]
  /\ UNCHANGED <<bubbles, selectedContactIds, bubbleMap, allContacts, callLogs,
                 showModal, maxLimitModalVisible, contactsPc, callLogPc, store,
                 loadPc, savedBubbles, saves, clearPc, now, base, translate,
                 dragging, touched, store0, cleared>>
  /\ UNCHANGED <<activeDeleteBubbleId, deleteButtonTimeoutRef, timers, timerSeq,
                 deleteButtonShownFor>>
  /\ UNCHANGED <<gateVars, logVars>>

\* ------------------------------------------------------- CallLog screen
\* A name that is null, undefined or '': the code tests names for truthiness.
Null == ""

\* a || b on names.
OrName(a, b) == IF a # Null THEN a ELSE b

LogName(log) == IF "name" \in DOMAIN log THEN log.name ELSE Null

\* log.duration || 0
LogDuration(log) == IF "duration" \in DOMAIN log THEN log.duration ELSE 0

\* A contact one of whose numbers equals the stripped number, entirely or in
\* the last 10 characters.
ContactMatches(contact, normalizedNumber) ==
  \E i \in DOMAIN contact.phoneNumbers :
     LET number == contact.phoneNumbers[i]
     IN  /\ ~Falsy(number)
         /\ \/ Strip(number) = normalizedNumber
            \/ SliceLast(Strip(number), 10) = SliceLast(normalizedNumber, 10)

\* findContactName: the name of the first matching contact, or null.
findContactName(phoneNumber, list) ==
  IF Falsy(phoneNumber) THEN Null
  ELSE LET hits == {k \in DOMAIN list :
                      ContactMatches(list[k], Strip(phoneNumber))}
       IN  IF hits = {} THEN Null
           ELSE list[CHOOSE k \in hits : \A j \in hits : k <= j].name

\* A grouping key that keeps the whole stripped number.
groupKeyWhole(phoneNumber) ==
  IF Falsy(phoneNumber) THEN << >> ELSE Strip(phoneNumber)

\* normalizePhoneNumber of the CallLog screen: the key of the group.
groupKey(phoneNumber) == normalizePhoneNumber(phoneNumber)

\* The position of the group with this key in the map, 0 when there is none.
GroupIndex(map, key) ==
  LET hits == {g \in DOMAIN map : map[g].key = key}
  IN  IF hits = {} THEN 0 ELSE CHOOSE g \in hits : TRUE

\* A name update that takes every name found.
mergedNameLatest(existing, contactName) ==
  IF contactName # Null THEN contactName ELSE existing

\* if (!existing.name && contactName) existing.name = contactName
mergedName(existing, contactName) ==
  IF existing = Null /\ contactName # Null THEN contactName ELSE existing

\* A number update that also takes a number of the same length.
mergedNumberLatest(existing, phoneNumber) ==
  IF Falsy(existing) \/ Len(phoneNumber) >= Len(existing)
  THEN phoneNumber ELSE existing

\* if (!existing.phoneNumber || log.phoneNumber.length >
\*     existing.phoneNumber.length) existing.phoneNumber = log.phoneNumber
mergedNumber(existing, phoneNumber) ==
  IF Falsy(existing) \/ Len(phoneNumber) > Len(existing)
  THEN phoneNumber ELSE existing

\* The body of logs.forEach for one entry.
groupLog(map, log, list) ==
  IF Falsy(log.phoneNumber) \/ groupKey(log.phoneNumber) = << >> THEN map
  ELSE LET key == groupKey(log.phoneNumber)
           contactName == OrName(findContactName(log.phoneNumber, list),
                                 LogName(log))
           g == GroupIndex(map, key)
       IN  IF g # 0
           THEN [map EXCEPT ![g] =
                   [key |-> key,
                    phoneNumber |-> mergedNumber(map[g].phoneNumber,
                                                 log.phoneNumber),
                    name |-> mergedName(map[g].name, contactName),
                    callCount |-> map[g].callCount + 1,
                    totalDuration |-> map[g].totalDuration + LogDuration(log)]]
           ELSE Append(map, [key |-> key,
                             phoneNumber |-> log.phoneNumber,
                             name |-> contactName,
                             callCount |-> 1,
                             totalDuration |-> LogDuration(log)])

\* Array.from(groupedMap.values()): the records without the key of the map.
MapValues(map) ==
  [g \in DOMAIN map |->
     [phoneNumber |-> map[g].phoneNumber, name |-> map[g].name,
      callCount |-> map[g].callCount, totalDuration |-> map[g].totalDuration]]

\* An insertion that puts a record before the records of equal duration.
insertBeforeTies(sorted, rec) ==
  LET before == SelectSeq(sorted, LAMBDA r : r.totalDuration > rec.totalDuration)
      after == SelectSeq(sorted, LAMBDA r : r.totalDuration <= rec.totalDuration)
  IN  before \o <<rec>> \o after

\* One insertion of the stable sort with (a, b) => b.totalDuration -
\* a.totalDuration: the record goes behind every record that is not smaller.
insertByDuration(sorted, rec) ==
  LET before == SelectSeq(sorted, LAMBDA r : r.totalDuration >= rec.totalDuration)
      after == SelectSeq(sorted, LAMBDA r : r.totalDuration < rec.totalDuration)
  IN  before \o <<rec>> \o after

RECURSIVE sortByDuration(_, _)
sortByDuration(arr, n) ==
  IF n = 0 THEN << >>
  ELSE insertByDuration(sortByDuration(arr, n - 1), arr[n])

\* A map that is created once and used by every run.
newMapKept(old) == old

\* const groupedMap = new Map()
newMap(old) == << >>

\* requestCallLogPermission up to the resolution of PermissionsAndroid.check:
\* off Android the status is not_android; with the permission granted
\* loadCallLogs is called, which calls CallLogs.load.
CheckPermission ==
  /\ logPc = "check"
  /\ IF platformOS # "android"
     THEN /\ permissionStatus' = "not_android"
          /\ logPc' = "stopped"
          /\ UNCHANGED callLogLoads
     ELSE IF readCallLog = "granted"
          THEN /\ permissionStatus' = "granted"
               /\ logPc' = "load"
               /\ callLogLoads' = callLogLoads + 1
          ELSE /\ logPc' = "request"
               /\ UNCHANGED <<permissionStatus, callLogLoads>>
  /\ UNCHANGED <<platformOS, readCallLog, deviceLog, aggregatedLogs,
                 contactList, screenLogs, groupedMap, logIndex, mounts,
                 firstRun>>
  /\ UNCHANGED <<contactsVars, deleteVars>>

\* PermissionsAndroid.request resolves with the answer of the user.
RequestPermission ==
  /\ logPc = "request"
  /\ \E answer \in RequestAnswers(readCallLog) :
       /\ readCallLog' = answer
       /\ permissionStatus' = answer
       /\ IF GateOpen(readCallLog, answer)
          THEN logPc' = "load" /\ callLogLoads' = callLogLoads + 1
          ELSE logPc' = "stopped" /\ UNCHANGED callLogLoads
  /\ UNCHANGED <<platformOS, deviceLog, aggregatedLogs, contactList,
                 screenLogs, groupedMap, logIndex, mounts, firstRun>>
  /\ UNCHANGED <<contactsVars, deleteVars>>

\* check or request rejects: the catch block sets the status to error.
PermissionFails ==
  /\ logPc \in {"check", "request"} /\ platformOS = "android"
  /\ permissionStatus' = "error"
  /\ logPc' = "stopped"
  /\ UNCHANGED <<gateVars, deviceLog, aggregatedLogs, contactList, screenLogs,
                 groupedMap, logIndex, mounts, firstRun>>
  /\ UNCHANGED <<contactsVars, deleteVars>>

\* CallLogs.load(500) resolves, or rejects and loadCallLogs ends in its catch.
CallLogsLoad ==
  /\ logPc = "load"
  /\ \E loadFails \in BOOLEAN :
       IF loadFails THEN logPc' = "stopped" /\ UNCHANGED screenLogs
       ELSE logPc' = "contacts" /\ screenLogs' = deviceLog
  /\ UNCHANGED <<gateVars, deviceLog, permissionStatus, aggregatedLogs,
                 contactList, groupedMap, logIndex, mounts, firstRun>>
  /\ UNCHANGED <<contactsVars, deleteVars>>

\* loadContacts resolves with the contacts of the device, or with [] when the
\* contacts permission is refused or the request fails; the map is created.
LoadScreenContacts ==
  /\ logPc = "contacts"
  /\ contactList' \in {<< >>, DeviceContacts}
  /\ groupedMap' = newMap(groupedMap)
  /\ logIndex' = 1
  /\ logPc' = "group"
  /\ UNCHANGED <<gateVars, deviceLog, permissionStatus, aggregatedLogs,
                 screenLogs, mounts, firstRun>>
  /\ UNCHANGED <<contactsVars, deleteVars>>

\* logs.forEach visits one entry.
GroupEntry ==
  /\ logPc = "group" /\ logIndex <= Len(screenLogs)
  /\ groupedMap' = groupLog(groupedMap, screenLogs[logIndex], contactList)
  /\ logIndex' = logIndex + 1
  /\ UNCHANGED <<gateVars, deviceLog, permissionStatus, aggregatedLogs,
                 contactList, logPc, screenLogs, mounts, firstRun>>
  /\ UNCHANGED <<contactsVars, deleteVars>>

\* The values of the map are sorted and given to setAggregatedLogs.
SortAndSet ==
  /\ logPc = "group" /\ logIndex > Len(screenLogs)
  /\ aggregatedLogs' = sortByDuration(MapValues(groupedMap), Len(groupedMap))
  /\ logPc' = "done"
  /\ firstRun' = IF firstRun.done THEN firstRun
                 ELSE [logs |-> screenLogs, contactList |-> contactList,
                       aggregated |-> aggregatedLogs', done |-> TRUE]
  /\ UNCHANGED <<gateVars, deviceLog, permissionStatus, contactList,
                 screenLogs, groupedMap, logIndex, mounts>>
  /\ UNCHANGED <<contactsVars, deleteVars>>

\* The screen is mounted again: the state is the initial one and the mount
\* effect runs requestCallLogPermission.
Remount ==
  /\ logPc \in {"done", "stopped"} /\ mounts < MaxMounts
  /\ mounts' = mounts + 1
  /\ permissionStatus' = "checking"
  /\ aggregatedLogs' = << >>
  /\ contactList' = << >>
  /\ screenLogs' = << >>
  /\ logIndex' = 1
  /\ logPc' = "check"
  /\ UNCHANGED <<gateVars, deviceLog, groupedMap, firstRun>>
  /\ UNCHANGED <<contactsVars, deleteVars>>

\* ----------------------------------------------------------- specifications
Next ==
  \/ SaveWrite1
  \/ SaveWrite2
  \/ LoadRead1
  \/ LoadRead2
  \/ ClearPress
  \/ ClearRemove1
  \/ ClearRemove2
  \/ LoadContactsDone
  \/ LoadCallLogsDone
  \/ HandleAddContactPress
  \/ CloseModal
  \/ PickerTap
  \/ PanGrant
  \/ PanMove
  \/ PanRelease

Spec == Init /\ [][Next]_vars

\* The picker on a device whose store holds six bubbles: load, save, the "+"
\* button, the limit dialog and the picker rows, with two adds available.
InitCap == InitWith({SixSnapshot}, 0)

NextCap ==
  \/ SaveWrite1
  \/ SaveWrite2
  \/ LoadRead1
  \/ LoadRead2
  \/ LoadContactsDone
  \/ HandleAddContactPress
  \/ CloseMaxLimitModal
  \/ CloseModal
  \/ PickerTap

SpecCap == InitCap /\ [][NextCap]_vars

\* Startup and the picker with a storage whose requests can fail and whose
\* stored texts may not parse.
InitFail == InitWith({TwoSnapshot, CorruptIdsSnapshot, CorruptBubblesSnapshot}, 1)

NextFail ==
  \/ SaveWrite1
  \/ SaveWrite1Fails
  \/ SaveWrite2
  \/ SaveWrite2Fails
  \/ LoadRead1
  \/ LoadRead1Fails
  \/ LoadRead2
  \/ LoadRead2Fails
  \/ LoadContactsDone
  \/ HandleAddContactPress
  \/ CloseModal
  \/ PickerTap

SpecFail == InitFail /\ [][NextFail]_vars

\* Startup, the contact and call-log refreshes and drags on a device whose
\* store holds two bubbles: of diameter 100 each, of diameter 60 each, or of
\* diameters 200 and 60.
InitGeom == InitWith({HundredSnapshot, TwoSnapshot, MixedSnapshot}, 1)

NextGeom ==
  \/ SaveWrite1
  \/ SaveWrite2
  \/ LoadRead1
  \/ LoadRead2
  \/ LoadContactsDone
  \/ LoadCallLogsDone
  \/ PanGrant
  \/ PanMove
  \/ PanRelease

SpecGeom == InitGeom /\ [][NextGeom]_vars

\* The CallLog screen on an Android device: the permission, the load, the
\* aggregation of a call log of at most MaxLogLen entries, and the remount.
InitAgg ==
  /\ InitContacts({NoSnapshot}, 1)
  /\ InitCallLog({"android"}, {"unset", "granted"}, LogLists)

NextAgg ==
  \/ CheckPermission
  \/ RequestPermission
  \/ CallLogsLoad
  \/ LoadScreenContacts
  \/ GroupEntry
  \/ SortAndSet
  \/ Remount

SpecAgg == InitAgg /\ [][NextAgg]_vars

\* The permission gate of both screens, on Android and off it, with
\* READ_CALL_LOG granted beforehand or not.
InitGate ==
  /\ InitContacts({TwoSnapshot}, 1)
  /\ InitCallLog({"android", "ios"}, {"unset", "granted"}, {DeviceCallLog})

NextGate ==
  \/ SaveWrite1
  \/ SaveWrite2
  \/ LoadRead1
  \/ LoadRead2
  \/ LoadCallLogsDone
  \/ CheckPermission
  \/ RequestPermission
  \/ PermissionFails
  \/ CallLogsLoad
  \/ LoadScreenContacts
  \/ GroupEntry
  \/ SortAndSet
  \/ Remount

SpecGate == InitGate /\ [][NextGate]_vars

\* The delete button of the bubbles of a restored layout.
InitDelete == InitWith({TwoSnapshot, MixedSnapshot}, 1)

NextDelete ==
  \/ SaveWrite1
  \/ SaveWrite2
  \/ LoadRead1
  \/ LoadRead2
  \/ LoadContactsDone
  \/ ShowDeleteButtonForBubble
  \/ TimePasses
  \/ DeleteTimerFires
  \/ ScreenBlur
  \/ HandleScreenTap

SpecDelete == InitDelete /\ [][NextDelete]_vars

\* The same screen with the clock and the timers of the JavaScript runtime:
\* time goes on, and a timer that is due runs.
SpecDeleteLive ==
  SpecDelete /\ WF_vars(TimePasses) /\ WF_vars(DeleteTimerFires)

\* The delete confirmation of the Contacts screen: load, save, the contacts,
\* the request from a bubble, Delete and Cancel.
InitConfirm == InitWith({TwoSnapshot, MixedSnapshot}, 1)

NextConfirm ==
  \/ SaveWrite1
  \/ SaveWrite2
  \/ LoadRead1
  \/ LoadRead2
  \/ LoadContactsDone
  \/ ShowDeleteButtonForBubble
  \/ HandleDeleteBubble
  \/ ConfirmDelete
  \/ CancelDelete

SpecConfirm == InitConfirm /\ [][NextConfirm]_vars

\* Entries CallLogs.load can return to the Contacts screen: two spellings of
\* Ann's number, a number of no contact, an empty number and a number that
\* is empty once stripped.
DurationEntries ==
  { [phoneNumber |-> LogNumA, duration |-> 30000],
    [phoneNumber |-> NumA2, duration |-> 12000],
    [phoneNumber |-> LogNumB, duration |-> 12000],
    [phoneNumber |-> << >>, duration |-> 900],
    [phoneNumber |-> LogNumBlank, duration |-> 600] }

\* The call logs of at most MaxLogLen such entries.
DurationLogs == UNION {[1..n -> DurationEntries] : n \in 0..MaxLogLen}

\* The Contacts screen refreshing the durations of two restored bubbles from
\* any of these call logs.
InitDur ==
  /\ InitContacts({TwoSnapshot}, 1)
  /\ InitCallLog({"android"}, {"granted"}, DurationLogs)

NextDur ==
  \/ SaveWrite1
  \/ SaveWrite2
  \/ LoadRead1
  \/ LoadRead2
  \/ LoadContactsDone
  \/ LoadCallLogsDone

SpecDur == InitDur /\ [][NextDur]_vars

\* ------------------------------------------------------------- predicates
InBounds(b) ==
  /\ 0 <= b.x /\ 0 <= b.y
  /\ b.x + b.size <= width /\ b.y + b.size <= height

\* squaredCenterDistance < (r1 + r2)^2, all lengths doubled
Overlap(a, b) ==
  LET dx2 == (2 * a.x + a.size) - (2 * b.x + b.size)
      dy2 == (2 * a.y + a.size) - (2 * b.y + b.size)
  IN  dx2 * dx2 + dy2 * dy2 < (a.size + b.size) * (a.size + b.size)

DragAccepted == lastEvent.kind \in {"moveAccepted", "releaseAccepted"}

DragRejected == lastEvent.kind \in {"moveRejected", "releaseRejected"}

Position(b) == [x |-> b.x, y |-> b.y]

\* Candidate coordinates: every base coordinate plus every delta.
CandCoords == {c + d : c \in Coords, d \in Deltas}

Quiet == saves = EmptyBag /\ loadPc = "done" /\ clearPc = "idle"

PersistedSnapshot(b, ids) ==
  [bubbles |-> PresentValue(JSONStringifyBubbles(b)), ids |-> PresentValue(ids)]

\* ------------------------------------------------------------------ claims
\* C1: the bubble list never holds more than 7 bubbles (an add issued from
\* the picker once 7 bubbles exist is refused).
C1_AtMostSeven == Len(bubbles) <= 7

\* C2: right after every accepted drag move or release, no two distinct
\* bubbles of the list overlap.
C2_NoOverlapAfterCommit ==
  DragAccepted =>
    \A i, j \in DOMAIN bubbles : i < j => ~Overlap(bubbles[i], bubbles[j])

\* C3: for every id of the index and every candidate (the positions a drag
\* can ask for, and the positions at and one pixel past each edge), canMoveTo
\* returns true only for a candidate inside the canvas; so the position an
\* accepted drag event commits is inside the canvas.
C3_AcceptedInBounds ==
  /\ \A id \in DOMAIN bubbleMap :
        LET size == bubbleMap[id].size
            xs == CandCoords \cup {-1, width - size, width - size + 1}
            ys == CandCoords \cup {-1, height - size, height - size + 1}
        IN  \A x \in xs, y \in ys :
              canMoveTo(bubbleMap, id, x, y) =>
                /\ 0 <= x /\ 0 <= y
                /\ x + size <= width
                /\ y + size <= height
  /\ DragAccepted =>
        /\ lastEvent.id \in Ids(bubbles)
        /\ InBounds(BubbleOf(bubbles, lastEvent.id))

\* C3 witness: a drag event moved a bubble away from where the drag started.
C3_Witness ==
  /\ lastEvent.kind = "moveAccepted"
  /\ lastEvent.id \in Ids(bubbles)
  /\ Position(BubbleOf(bubbles, lastEvent.id)) # lastEvent.origin
  /\ Len(bubbles) >= 2

\* C4: every bubble of the list lies inside the canvas in every state.
C4_AllInBounds == \A i \in DOMAIN bubbles : InBounds(bubbles[i])

\* C5: no two bubbles of the list have the same contactId.
C5_UniqueContact ==
  \A i, j \in DOMAIN bubbles :
     i < j => bubbles[i].contactId # bubbles[j].contactId

\* C6: a drag move or release whose candidate canMoveTo rejects leaves the
\* list, the index and the translate value of every bubble as they were: the
\* dragged bubble stays where the last accepted candidate, or else the start of
\* the drag, had put it and is not rolled back.
C6_RejectedKeepsPosition ==
  [][DragRejected' =>
       /\ bubbles' = bubbles
       /\ bubbleMap' = bubbleMap
       /\ translate' = translate]_vars

\* C6 witness: a candidate was rejected after an earlier candidate of the same
\* drag had moved the bubble.
C6_Witness ==
  /\ lastEvent.kind = "moveRejected"
  /\ dragging = lastEvent.id
  /\ dragging \in Ids(bubbles)
  /\ Position(BubbleOf(bubbles, dragging)) # base[dragging]

\* C7: the base offset of every bubble that is not being dragged is the
\* committed position of that bubble in the list.
C7_BaseIsCommitted ==
  \A i \in DOMAIN bubbles :
     bubbles[i].id # dragging => base[bubbles[i].id] = Position(bubbles[i])

\* C7 witness: a drag ended on a blocked candidate after it had moved the
\* bubble, so the base offset is neither the drag origin nor the candidate.
C7_Witness ==
  /\ lastEvent.kind = "releaseRejected"
  /\ lastEvent.id \in Ids(bubbles)
  /\ base[lastEvent.id] # lastEvent.origin

\* C8: when the store holds a saved snapshot at process start, then once the
\* load and the saves of the startup are over the list and the selection
\* equal the snapshot and the store still holds it.
C8_ReloadVerbatim ==
  (/\ store0.bubbles.present /\ store0.ids.present
   /\ ~touched /\ loadPc = "done" /\ saves = EmptyBag)
  => /\ bubbles = JSONParseBubbles(store0.bubbles.v)
     /\ selectedContactIds = store0.ids.v
     /\ store = store0

\* C9: once every save has completed and nothing is pending, the two stored
\* values are the current list and the current selection.
C9_LatestSnapshotWins ==
  Quiet => store = PersistedSnapshot(bubbles, selectedContactIds)

\* C10: after clear-all has completed, with no change since and every write
\* completed, the list, the selection and the index are empty and the store
\* holds no bubble and no selected id.
C10_ClearedStaysEmpty ==
  (cleared /\ Quiet)
  => /\ bubbles = << >> /\ selectedContactIds = {} /\ DOMAIN bubbleMap = {}
     /\ store.bubbles \in {AbsentBubbles, PresentValue(<< >>)}
     /\ store.ids \in {AbsentIds, PresentValue({})}

\* C11: when the startup load ended in a failure (a read rejected or a stored
\* text did not parse) and nothing but load and save has run, the list, the
\* index and the selection are empty.
C11_FailedLoadStartsEmpty ==
  (loadPc = "failed" /\ ~touched)
  => /\ bubbles = << >> /\ DOMAIN bubbleMap = {} /\ selectedContactIds = {}

RemovableIds == {"c1", "c2", "c3", "c9"}

HasBubble(arr, contactId) == \E i \in DOMAIN arr : arr[i].contactId = contactId

RemoveTwiceIsOnce(contactId) ==
  LET once == removeFromList(bubbles, contactId)
      ids1 == removeFromSelection(selectedContactIds, contactId)
  IN  /\ removeFromList(once, contactId) = once
      /\ removeFromSelection(ids1, contactId) = ids1
      /\ syncMap(removeFromList(once, contactId)) = syncMap(once)

ProbeXs(map, id, size) ==
  CandCoords \cup {-1, width - size, width - size + 1}
  \cup UNION {{map[o].x + map[o].size, map[o].x + map[o].size - 1,
               map[o].x + map[o].size - 20, map[o].x - size,
               map[o].x - size + 1, map[o].x - size + 20}
              : o \in DOMAIN map \ {id}}

ProbeYs(map, id, size) ==
  {-1, 0, height - size, height - size + 1}
  \cup {map[o].y : o \in DOMAIN map \ {id}}

\* C14: for every id of the index and every candidate, canMoveTo is true
\* exactly when the candidate is inside the canvas and the squared centre
\* distance to every other bubble of the index is at least the squared sum
\* of the radii (tangency accepted, anything closer rejected).
C14_CanMoveToExact ==
  \A id \in DOMAIN bubbleMap :
     LET size == bubbleMap[id].size
     IN  \A x \in ProbeXs(bubbleMap, id, size), y \in ProbeYs(bubbleMap, id, size) :
           LET cand == [x |-> x, y |-> y, size |-> size]
           IN  canMoveTo(bubbleMap, id, x, y)
               <=> /\ InBounds(cand)
                   /\ \A o \in DOMAIN bubbleMap \ {id} :
                         ~Overlap(cand, bubbleMap[o])

\* C14 witness: a drag candidate was accepted while the index holds two
\* bubbles of diameter 100 on one row, for which a candidate with the centres
\* 80 apart is rejected and candidates 100 and 120 apart are accepted.
C14_Witness ==
  /\ lastEvent.kind = "moveAccepted"
  /\ \E id, o \in DOMAIN bubbleMap :
       /\ id # o /\ bubbleMap[id].size = 100 /\ bubbleMap[o].size = 100
       /\ ~canMoveTo(bubbleMap, id, bubbleMap[o].x - 80, bubbleMap[o].y)
       /\ canMoveTo(bubbleMap, id, bubbleMap[o].x - 100, bubbleMap[o].y)
       /\ canMoveTo(bubbleMap, id, bubbleMap[o].x - 120, bubbleMap[o].y)

\* Ids no bubble of the session has: a bubble of another session and the id
\* shape of a bubble that was never added.
UnknownIds == {[c |-> "c9", t |-> 0], [c |-> "c1", t |-> 99]}

\* C15: for an id the index does not hold, canMoveTo is true for every
\* candidate, also outside the canvas and on top of a bubble.
C15_UnknownIdAllowed ==
  \A id \in UnknownIds \ DOMAIN bubbleMap :
     \A x \in CandCoords \cup {-1, width + 1} \cup {bubbleMap[o].x : o \in DOMAIN bubbleMap},
        y \in CandCoords \cup {-1, height + 1} \cup {bubbleMap[o].y : o \in DOMAIN bubbleMap} :
        canMoveTo(bubbleMap, id, x, y)

\* C15 witness: the index holds bubbles, none of them under an unknown id.
C15_Witness ==
  /\ DOMAIN bubbleMap # {}
  /\ UnknownIds \cap DOMAIN bubbleMap = {}
  /\ \E id \in UnknownIds, o \in DOMAIN bubbleMap :
        canMoveTo(bubbleMap, id, bubbleMap[o].x, bubbleMap[o].y)

\* The step is an accepted drag move or release of the bubble with this id.
AcceptedDragOf(id) == DragAccepted' /\ lastEvent'.id = id

\* C16: the position of a bubble in the list and in the index changes only
\* in a step that is an accepted drag move or release of that bubble; no other
\* step (the settle after a release, any step while no drag is in progress)
\* changes it.
C16_PositionChangesOnlyByDrag ==
  [][\A id \in Ids(bubbles) \cap Ids(bubbles') :
       (\/ Position(BubbleOf(bubbles', id)) # Position(BubbleOf(bubbles, id))
        \/ Position(bubbleMap'[id]) # Position(bubbleMap[id]))
       => AcceptedDragOf(id)]_vars

\* C16 witness: a release was rejected (the settle runs on the shown value)
\* after an accepted move of the same drag had changed the position.
C16_Witness ==
  /\ lastEvent.kind = "releaseRejected"
  /\ lastEvent.id \in Ids(bubbles)
  /\ Position(BubbleOf(bubbles, lastEvent.id)) # lastEvent.origin

\* C17: the index holds exactly the ids of the list and maps each id to a
\* node with the size, x and y of the list entry, in every state (a state
\* is what the next canMoveTo evaluation sees).
C17_IndexMatchesList ==
  /\ DOMAIN bubbleMap = Ids(bubbles)
  /\ \A i \in DOMAIN bubbles :
       LET node == bubbleMap[bubbles[i].id]
       IN  node.size = bubbles[i].size /\ node.x = bubbles[i].x
           /\ node.y = bubbles[i].y

\* C17 witness: a duration refresh has resized a bubble.
C17_Witness ==
  \E i \in DOMAIN bubbles :
     bubbles[i].callDuration > 0 /\ bubbles[i].size > getBubbleSize(0)
     /\ bubbles[i].id.t > 0

\* Contact lists and call logs a refresh can run with.
RefreshContacts == {allContacts, DeviceContacts}
RefreshLogs == {callLogs, DeviceCallLog}

\* The fields of a bubble a duration refresh never writes.
Identity(b) == [id |-> b.id, contactId |-> b.contactId,
                contactName |-> b.contactName, x |-> b.x, y |-> b.y]

\* C18: a duration refresh of the list keeps its length and order and, of
\* every bubble, id, contactId, contactName, x and y, and it keeps a phone
\* number that is present; it never looks at the window or at other
\* bubbles, so the result may overlap or leave the window.
C18_RefreshFrame ==
  \A contacts \in RefreshContacts : \A logs \in RefreshLogs :
     LET updated == updateBubbleDurations(bubbles, contacts, logs)
     IN  /\ Len(updated) = Len(bubbles)
         /\ \A i \in DOMAIN bubbles :
              /\ Identity(updated[i]) = Identity(bubbles[i])
              /\ DOMAIN updated[i] = DOMAIN bubbles[i]
              /\ ~Falsy(bubbles[i].phoneNumber)
                    => updated[i].phoneNumber = bubbles[i].phoneNumber

\* C18 witness: a refresh has grown a bubble past the right edge of the
\* window and left it where it was.
C18_Witness ==
  /\ callLogPc = "done" /\ contactsPc = "granted"
  /\ \E i \in DOMAIN bubbles :
        /\ bubbles[i].callDuration > 0
        /\ bubbles[i].size = getBubbleSize(bubbles[i].callDuration)
        /\ bubbles[i].x + bubbles[i].size > width

\* A step in which the contact list or the call log arrives.
LoadContactsOrCallLogStep ==
  contactsPc' # contactsPc \/ callLogPc' # callLogPc

\* C19: a duration refresh and a phone-number restore return a bubble whose
\* contactId matches no contact as it is, and a step in which the contact
\* list or the call log arrives keeps every id of the list and every such
\* bubble.
C19_MissingContactKept ==
  [][/\ \A contacts \in RefreshContacts : \A logs \in RefreshLogs :
          \A i \in DOMAIN bubbles :
             FindContact(contacts, bubbles[i].contactId) = 0
             => /\ Len(updateBubbleDurations(bubbles, contacts, logs))
                     = Len(bubbles)
                /\ updateBubbleDurations(bubbles, contacts, logs)[i]
                     = bubbles[i]
                /\ restorePhoneNumbers(bubbles, contacts)[i] = bubbles[i]
     /\ LoadContactsOrCallLogStep
          => /\ Len(bubbles') = Len(bubbles)
             /\ \A i \in DOMAIN bubbles :
                  /\ bubbles'[i].id = bubbles[i].id
                  /\ FindContact(allContacts', bubbles[i].contactId) = 0
                       => bubbles'[i] = bubbles[i]]_vars

\* C19 witness: contacts and call log have arrived and the list holds a
\* bubble with a non-zero duration whose contact is not on the device.
C19_Witness ==
  /\ callLogPc = "done" /\ contactsPc = "granted"
  /\ \E i \in DOMAIN bubbles :
        /\ FindContact(allContacts, bubbles[i].contactId) = 0
        /\ bubbles[i].callDuration > 0

\* Window widths and call durations (seconds) the size formula is probed at.
ProbeWidths == {1, 320, 400, 1080}
ProbeDurations ==
  {0, 1, 600, 12000, 41999, 42000, 42001, 84000}
     \cup {bubbles[i].callDuration : i \in DOMAIN bubbles}
     \cup {callLogs[i].duration : i \in DOMAIN callLogs}

\* C20: for every width w and durations d1 <= d2,
\* 0.15 w <= size(d1) <= size(d2) <= 0.50 w, and size(0) = 0.15 w.
C20_SizeMonotoneBounded ==
  \A w \in ProbeWidths :
     /\ getBubbleSizeOn(w, 0) = 18000 * w
     /\ \A d1, d2 \in ProbeDurations :
          d1 <= d2 => /\ 18000 * w <= getBubbleSizeOn(w, d1)
                      /\ getBubbleSizeOn(w, d1) <= getBubbleSizeOn(w, d2)
                      /\ getBubbleSizeOn(w, d2) <= 60000 * w

\* C20 witness: the refresh has sized one bubble at the cap and the list
\* holds a bubble of the minimum size.
C20_Witness ==
  /\ callLogPc = "done"
  /\ \E i \in DOMAIN bubbles :
        bubbles[i].callDuration >= 42000
        /\ FindContact(allContacts, bubbles[i].contactId) # 0
        /\ 120000 * bubbles[i].size = getBubbleSizeOn(width, bubbles[i].callDuration)
        /\ bubbles[i].size = width \div 2
  /\ \E i \in DOMAIN bubbles :
        bubbles[i].callDuration = 0 /\ 120000 * bubbles[i].size = 18000 * width

\* C21: for d > 0 the size on width w is min(0.15 w + w (d/60/10) 0.005,
\* 0.50 w); on the 400-wide window size(0) = 60, size(600) = 62, the size is
\* 200 from 42000 seconds on and below 200 for every smaller duration.
C21_SizeFormula ==
  /\ \A w \in ProbeWidths : \A d \in ProbeDurations \ {0} :
        getBubbleSizeOn(w, d)
          = Min(((15 * 120000) \div 100) * w
                  + ((5 * 120000) \div 600000) * w * d,
                ((50 * 120000) \div 100) * w)
  /\ getBubbleSize(0) = 60
  /\ getBubbleSize(600) = 62
  /\ \A d \in ProbeDurations :
        /\ d >= 42000 => getBubbleSizeScaled(d) = 200 * 120000
        /\ d < 42000 => getBubbleSizeScaled(d) < 200 * 120000

\* C21 witness: a refresh has sized a bubble of exactly 42000 seconds at 200
\* on the 400-wide window.
C21_Witness ==
  /\ width = 400 /\ callLogs # << >>
  /\ \E i \in DOMAIN bubbles :
        /\ bubbles[i].callDuration = 42000 /\ bubbles[i].size = 200
        /\ FindContact(allContacts, bubbles[i].contactId) # 0
        /\ bubbles[i].callDuration
             = findCallDurationForContact(
                  allContacts[FindContact(allContacts, bubbles[i].contactId)],
                  callLogs)

\* C29: a move event leaves the base offsets as they are, and the position
\* an accepted move or release commits, in the list and in the index, is the
\* base offset of the drag start plus the delta of that event.
C29_CandidateFromDragStart ==
  [][LET e == lastEvent'
     IN  /\ e.kind \in {"moveAccepted", "moveRejected"} => base' = base
         /\ e.kind \in {"moveAccepted", "releaseAccepted"}
              => LET committed == [x |-> base[e.id].x + e.delta.x,
                                   y |-> base[e.id].y + e.delta.y]
                 IN  /\ e.id \in Ids(bubbles')
                     /\ Position(BubbleOf(bubbles', e.id)) = committed
                     /\ Position(bubbleMap'[e.id]) = committed]_vars

\* C29 witness: in the middle of a drag, after an accepted move away from
\* the drag start: the base offset is still the one of the drag start.
C29_Witness ==
  /\ lastEvent.kind = "moveAccepted" /\ dragging = lastEvent.id
  /\ lastEvent.delta.x # 0
  /\ base[dragging] = lastEvent.origin
  /\ Position(BubbleOf(bubbles, dragging)).x
       = lastEvent.origin.x + lastEvent.delta.x

\* The bubble an add step appends.
Added(arr) == arr[Len(arr)]

\* C30: an add step appends one bubble with 0 <= x <= width - size and
\* 0 <= y <= height - size and leaves every other bubble where it was; the
\* position is drawn from a set that depends on the size alone.
C30_AddedInBounds ==
  [][now' = now + 1
       => /\ Len(bubbles') = Len(bubbles) + 1
          /\ Added(bubbles').id.t = now
          /\ 0 <= Added(bubbles').x
          /\ Added(bubbles').x <= width - Added(bubbles').size
          /\ 0 <= Added(bubbles').y
          /\ Added(bubbles').y <= height - Added(bubbles').size
          /\ Position(Added(bubbles'))
               \in generateRandomPosition(Added(bubbles').size)
          /\ \A i \in DOMAIN bubbles :
               Position(bubbles'[i]) = Position(bubbles[i])]_vars

\* C30 witness: the bubble just added lies in the window and overlaps a
\* restored bubble that is where the store had it.
C30_Witness ==
  /\ bubbles # << >> /\ Added(bubbles).id.t = now - 1 /\ InBounds(Added(bubbles))
  /\ store0.bubbles.present
  /\ \E i \in DOMAIN bubbles : \E k \in DOMAIN store0.bubbles.v :
        /\ i < Len(bubbles)
        /\ bubbles[i].id = ParseBubble(store0.bubbles.v[k]).id
        /\ Position(bubbles[i]) = Position(ParseBubble(store0.bubbles.v[k]))
        /\ Overlap(bubbles[i], Added(bubbles))

\* The last 10 characters of a number without whitespace, dashes and
\* parentheses.
KeyOf(phoneNumber) == SliceLast(Strip(phoneNumber), 10)

\* The entries of a call log that carry this non-empty key.
EntriesOf(list, key) ==
  SelectSeq(list, LAMBDA e : ~Falsy(e.phoneNumber) /\ KeyOf(e.phoneNumber) = key)

\* The keys of a call log.
KeysOf(list) ==
  {KeyOf(list[i].phoneNumber) : i \in DOMAIN list} \ {<< >>}

RECURSIVE TotalOf(_)
TotalOf(entries) ==
  IF entries = << >> THEN 0
  ELSE LogDuration(Head(entries)) + TotalOf(Tail(entries))

RECURSIVE CountSum(_)
CountSum(records) ==
  IF records = << >> THEN 0
  ELSE Head(records).callCount + CountSum(Tail(records))

\* The aggregation of the loaded call log has been given to the screen.
Aggregated == logPc = "done"

\* C22: the aggregated list has exactly one record per key (the last 10
\* characters of the stripped number) of the call log; its callCount is the
\* number of entries with that key and its totalDuration the sum of their
\* durations, an absent duration counting 0; entries without a key make no
\* record, so the callCounts add up to the number of entries with a key.
C22_OneRecordPerKey ==
  Aggregated =>
    /\ Len(aggregatedLogs) = Cardinality(KeysOf(screenLogs))
    /\ \A key \in KeysOf(screenLogs) :
         \E g \in DOMAIN aggregatedLogs :
            /\ KeyOf(aggregatedLogs[g].phoneNumber) = key
            /\ aggregatedLogs[g].callCount = Len(EntriesOf(screenLogs, key))
            /\ aggregatedLogs[g].totalDuration
                 = TotalOf(EntriesOf(screenLogs, key))
    /\ CountSum(aggregatedLogs)
         = Len(SelectSeq(screenLogs,
                         LAMBDA e : ~Falsy(e.phoneNumber)
                                    /\ KeyOf(e.phoneNumber) # << >>))

\* C22 witness: "(555) 123-4567" for 30 s, "555-123-4567" for 45 s and an
\* entry without a number give one record with callCount 2 and 75 s.
C22_Witness ==
  /\ Aggregated /\ Len(screenLogs) = 3
  /\ \E i, j, k \in DOMAIN screenLogs :
        /\ screenLogs[i].phoneNumber = LogNumA /\ LogDuration(screenLogs[i]) = 30
        /\ screenLogs[j].phoneNumber = LogNumDash
        /\ LogDuration(screenLogs[j]) = 45
        /\ screenLogs[k].phoneNumber = << >>
  /\ Len(aggregatedLogs) = 1
  /\ aggregatedLogs[1].callCount = 2 /\ aggregatedLogs[1].totalDuration = 75

\* C23: a second aggregation of the same call log with the same contact list
\* gives the sequence of records the first one gave: same numbers, names,
\* callCounts and totalDurations in the same order.
C23_AggregationRepeatable ==
  (/\ Aggregated /\ firstRun.done
   /\ firstRun.logs = screenLogs /\ firstRun.contactList = contactList)
  => aggregatedLogs = firstRun.aggregated

\* C23 witness: the screen was mounted again and has aggregated the same call
\* log with the same contacts into at least two records, one of them named.
C23_Witness ==
  /\ Aggregated /\ mounts = MaxMounts /\ firstRun.done
  /\ firstRun.logs = screenLogs /\ firstRun.contactList = contactList
  /\ Len(aggregatedLogs) >= 2
  /\ \E g \in DOMAIN aggregatedLogs : aggregatedLogs[g].name # Null

\* The position in the call log of the first entry with this key.
FirstEncounter(list, key) ==
  CHOOSE i \in DOMAIN list :
     /\ ~Falsy(list[i].phoneNumber) /\ KeyOf(list[i].phoneNumber) = key
     /\ \A j \in DOMAIN list :
          (~Falsy(list[j].phoneNumber) /\ KeyOf(list[j].phoneNumber) = key)
          => i <= j

\* C24: the aggregated list is in descending order of totalDuration, and of
\* two records with the same totalDuration the one whose group the call log
\* meets first comes first.
C24_SortedStable ==
  Aggregated =>
    \A g, h \in DOMAIN aggregatedLogs :
       g < h =>
         /\ aggregatedLogs[g].totalDuration >= aggregatedLogs[h].totalDuration
         /\ aggregatedLogs[g].totalDuration = aggregatedLogs[h].totalDuration
              => FirstEncounter(screenLogs, KeyOf(aggregatedLogs[g].phoneNumber))
                   < FirstEncounter(screenLogs,
                                    KeyOf(aggregatedLogs[h].phoneNumber))

\* C24 witness: two records of 75 s each, the first one of a group that
\* reached 75 s with its second entry, after the other group was met.
C24_Witness ==
  /\ Aggregated /\ Len(aggregatedLogs) = 2
  /\ aggregatedLogs[1].totalDuration = 75 /\ aggregatedLogs[2].totalDuration = 75
  /\ aggregatedLogs[1].callCount = 2
  /\ KeyOf(screenLogs[2].phoneNumber) = KeyOf(aggregatedLogs[2].phoneNumber)

\* The entry forEach visits in this step belongs to the group of this key.
VisitedIn(key) ==
  /\ ~Falsy(screenLogs[logIndex].phoneNumber)
  /\ KeyOf(screenLogs[logIndex].phoneNumber) = key

\* The name the visited entry resolves to: the contact's, else the entry's.
ResolvedName ==
  OrName(findContactName(screenLogs[logIndex].phoneNumber, contactList),
         LogName(screenLogs[logIndex]))

\* C25: the visit of an entry leaves the name of every group that has one;
\* a group without a name takes the name the entry resolves to when the
\* entry is of that group and the name is not null, and stays without one
\* otherwise.
C25_NameSticky ==
  [][(logPc = "group" /\ logIndex' = logIndex + 1)
       => \A g \in DOMAIN groupedMap :
            /\ groupedMap'[g].key = groupedMap[g].key
            /\ groupedMap[g].name # Null
                 => groupedMap'[g].name = groupedMap[g].name
            /\ groupedMap[g].name = Null
                 => groupedMap'[g].name
                      = IF VisitedIn(groupedMap[g].key) THEN ResolvedName
                        ELSE Null]_vars

\* C25 witness: without contacts, entries of one group that resolve to null,
\* to "Annie" and to "Anna", in this order, leave the group named "Annie".
C25_Witness ==
  /\ logPc = "group" /\ logIndex = 4 /\ contactList = << >>
  /\ LogName(screenLogs[1]) = Null
  /\ LogName(screenLogs[2]) = "Annie"
  /\ LogName(screenLogs[3]) = "Anna"
  /\ Len(groupedMap) = 1 /\ groupedMap[1].callCount = 3
  /\ groupedMap[1].name = "Annie"

\* The entries forEach has visited so far.
Visited == SubSeq(screenLogs, 1, logIndex - 1)

\* C26: while the call log is grouped, the number of every group is the
\* longest raw number among the visited entries of the group, and the
\* earliest of them when several have that length.
C26_LongestEarliestNumber ==
  logPc = "group" =>
    \A g \in DOMAIN groupedMap :
       LET entries == EntriesOf(Visited, groupedMap[g].key)
       IN  \E i \in DOMAIN entries :
              /\ entries[i].phoneNumber = groupedMap[g].phoneNumber
              /\ \A j \in DOMAIN entries :
                   /\ Len(entries[j].phoneNumber) <= Len(entries[i].phoneNumber)
                   /\ j < i => Len(entries[j].phoneNumber)
                                  < Len(entries[i].phoneNumber)

\* C26 witness: a 12-character number, then two different 14-character
\* numbers of the same group: the group shows the first of the two.
C26_Witness ==
  /\ logPc = "group" /\ logIndex = 4
  /\ screenLogs[1].phoneNumber = LogNumDash
  /\ screenLogs[2].phoneNumber = LogNumA
  /\ screenLogs[3].phoneNumber = LogNumWide
  /\ Len(groupedMap) = 1 /\ groupedMap[1].phoneNumber = LogNumA

\* The statuses in which the CallLog screen shows no list.
RefusedStatuses == {"denied", "never_ask_again", "not_android"}

\* C28: a step of either screen that invokes CallLogs.load runs on Android
\* and leaves READ_CALL_LOG granted; when requestCallLogPermission ends
\* without the permission, nothing is loaded, the status is not_android off
\* Android and the answer of the request on it, and while the status is one
\* of these the screen holds no call log and no aggregated record.
C28_LoadBehindGate ==
  [][/\ callLogLoads' # callLogLoads
          => platformOS = "android" /\ readCallLog' = "granted"
     /\ (logPc \in {"check", "request"} /\ logPc' = "stopped"
         /\ permissionStatus' # "error")
          => /\ callLogLoads' = callLogLoads
             /\ permissionStatus' \in RefusedStatuses
             /\ permissionStatus' = IF platformOS # "android"
                                    THEN "not_android" ELSE readCallLog'
     /\ permissionStatus' \in RefusedStatuses
          => aggregatedLogs' = << >> /\ screenLogs' = << >>]_vars

\* C28 witness: the request was blocked on the CallLog screen and refused on
\* the Contacts screen: both are through, nothing was loaded.
C28_Witness ==
  /\ logPc = "stopped" /\ permissionStatus = "never_ask_again"
  /\ callLogPc = "done" /\ readCallLog = "denied"
  /\ callLogLoads = 0 /\ callLogs = << >> /\ aggregatedLogs = << >>

\* At most one timer is pending, it is the one the ref holds, and one is
\* pending exactly when a bubble id is active.
OneTimerIffActive ==
  /\ Cardinality(timers) <= 1
  /\ timers = IF deleteButtonTimeoutRef = 0 THEN {} ELSE {deleteButtonTimeoutRef}
  /\ (timers # {}) <=> (activeDeleteBubbleId # NoDrag)
  /\ Cardinality({i \in DOMAIN bubbles :
                     bubbles[i].id = activeDeleteBubbleId}) <= 1

\* C27: after every step at most one auto-hide timer is pending, at most
\* one bubble has its delete button active, and a timer is pending exactly
\* when a bubble id is active; a step that shows the button for a bubble
\* leaves only the timer it arms, whatever timer was pending and whichever
\* bubble was active before.
C27_OneDeleteTimer ==
  [][/\ OneTimerIffActive'
     /\ timerSeq' # timerSeq
          => /\ timers' = {timerSeq}
             /\ timers \cap timers' = {}
             /\ activeDeleteBubbleId' \in Ids(bubbles)]_vars

\* C27 witness: the button was shown for one bubble and then, with the
\* first timer still pending, for another one.
C27_Witness ==
  /\ timerSeq = 3 /\ timers = {2} /\ deleteButtonTimeoutRef = 2
  /\ Len(bubbles) = 2 /\ activeDeleteBubbleId = bubbles[2].id

\* The fields of a bubble that a removal of another contact keeps.
Shape(b) == [id |-> b.id, size |-> b.size, x |-> b.x, y |-> b.y,
             contactId |-> b.contactId]

\* C31: a tap on a selected row of the picker, which calls removeBubble with
\* the contact id of the row, leaves in the list exactly the bubbles of the
\* other contacts, in their order and with their id, size, x and y, leaves
\* in the index exactly their ids with the same size, x and y, and takes
\* that one id out of the selection.
C31_RemoveFrame ==
  [][\A c \in RemovableIds :
       (PickerTap /\ c \in selectedContactIds /\ c \notin selectedContactIds')
       => LET kept == SelectSeq(bubbles, LAMBDA b : b.contactId # c)
          IN  /\ Len(bubbles') = Len(kept)
              /\ \A i \in DOMAIN kept : Shape(bubbles'[i]) = Shape(kept[i])
              /\ DOMAIN bubbleMap' = Ids(kept)
              /\ \A i \in DOMAIN kept :
                   Shape(bubbleMap'[kept[i].id]) = Shape(kept[i])
              /\ selectedContactIds' = selectedContactIds \ {c}]_vars

\* C31 witness: of the two restored bubbles the one of c1 was removed in the
\* picker; the bubble of c2 is left and c2 is still selected.
C31_Witness ==
  /\ showModal /\ loadPc = "done" /\ store0 = TwoSnapshot
  /\ selectedContactIds = {"c2"}
  /\ Len(bubbles) = 1 /\ bubbles[1].contactId = "c2"
  /\ bubbles[1].x = 250 /\ DOMAIN bubbleMap = {bubbles[1].id}

\* C34: an accepted move or release of a bubble leaves the length and the
\* order of the list, every other bubble, every field of the dragged bubble
\* other than x and y, and the selection as they were.
C34_DragFrame ==
  [][DragAccepted'
       => /\ Len(bubbles') = Len(bubbles)
          /\ selectedContactIds' = selectedContactIds
          /\ \A i \in DOMAIN bubbles :
               IF bubbles[i].id = lastEvent'.id
               THEN bubbles'[i] = [bubbles[i] EXCEPT !.x = bubbles'[i].x,
                                                     !.y = bubbles'[i].y]
               ELSE bubbles'[i] = bubbles[i]]_vars

\* C34 witness: of two bubbles one has just been moved off its drag start
\* by an accepted move.
C34_Witness ==
  /\ lastEvent.kind = "moveAccepted" /\ Len(bubbles) = 2
  /\ lastEvent.id \in Ids(bubbles)
  /\ Position(BubbleOf(bubbles, lastEvent.id)) # lastEvent.origin
  /\ \E i \in DOMAIN bubbles : bubbles[i].id # lastEvent.id

\* C35: the size of every bubble of the list, and of its node in the index,
\* is getBubbleSize of its callDuration on the window of the session.
C35_SizeMatchesDuration ==
  /\ \A i \in DOMAIN bubbles :
        bubbles[i].size = getBubbleSize(bubbles[i].callDuration)
  /\ \A id \in DOMAIN bubbleMap :
        bubbleMap[id].size = getBubbleSize(bubbleMap[id].callDuration)

\* C35 witness: a bubble added in this session carries 42000 seconds and
\* the size 200, next to a restored bubble of the minimum size that was
\* dragged to another place.
C35_Witness ==
  /\ \E i \in DOMAIN bubbles :
        /\ bubbles[i].id.t > 0
        /\ bubbles[i].callDuration = 42000 /\ bubbles[i].size = 200
  /\ \E i \in DOMAIN bubbles : \E k \in DOMAIN store0.bubbles.v :
        /\ bubbles[i].id = ParseBubble(store0.bubbles.v[k]).id
        /\ bubbles[i].callDuration = 0 /\ bubbles[i].size = getBubbleSize(0)
        /\ Position(bubbles[i]) # Position(ParseBubble(store0.bubbles.v[k]))

\* The contact ids of the bubbles of a list.
ContactIds(arr) == {arr[i].contactId : i \in DOMAIN arr}

\* C33: in every state in which no load, save or clear is running, the
\* selection is the set of the contact ids of the bubbles of the list.
C33_SelectionMatchesList ==
  Quiet => selectedContactIds = ContactIds(bubbles)

\* Contacts findCallDurationForContact can be called with: Ann (two numbers
\* of one line), Cy (no number), a contact whose only number is empty once
\* stripped, and a contact with an empty number and the number of a log
\* entry.
ProbeContacts ==
  { DeviceContacts[1],
    DeviceContacts[2],
    [id |-> "c4", name |-> "Dash", phoneNumbers |-> <<LogNumBlank>>],
    [id |-> "c5", name |-> "Bo", phoneNumbers |-> << << >>, LogNumB >>] }

\* The normalized forms of all the phone numbers of a contact.
NormalizedNumbers(contact) ==
  {normalizePhoneNumber(contact.phoneNumbers[i]) : i \in DOMAIN contact.phoneNumbers}

\* The normalized forms of the non-empty phone numbers of a contact.
NormalizedTruthyNumbers(contact) ==
  {normalizePhoneNumber(contact.phoneNumbers[i]) :
     i \in {j \in DOMAIN contact.phoneNumbers : ~Falsy(contact.phoneNumbers[j])}}

\* The sum of the durations of the entries of logs at the positions S.
RECURSIVE DurationSum(_, _)
DurationSum(logs, S) ==
  IF S = {} THEN 0
  ELSE LET i == CHOOSE j \in S : TRUE
       IN  logs[i].duration + DurationSum(logs, S \ {i})

\* C36 (as stated): for every contact and the call log of the state,
\* findCallDurationForContact is the sum of the durations of exactly the
\* entries whose normalized number is the normalized form of one of the
\* contact's numbers, each entry once; it is 0 for a contact with no phone
\* number and for an empty log.
C36_DurationIsSumOfMatches ==
  \A contact \in ProbeContacts :
     LET matching == {i \in DOMAIN callLogs :
                        normalizePhoneNumber(callLogs[i].phoneNumber)
                          \in NormalizedNumbers(contact)}
     IN  /\ findCallDurationForContact(contact, callLogs)
              = DurationSum(callLogs, matching)
         /\ Len(contact.phoneNumbers) = 0
              => findCallDurationForContact(contact, callLogs) = 0
         /\ Len(callLogs) = 0
              => findCallDurationForContact(contact, callLogs) = 0

\* C36 (amended): findCallDurationForContact is the sum of the durations of
\* exactly the entries that have a non-empty number whose normalized form is
\* the normalized form of one of the contact's non-empty numbers, each entry
\* once; it is 0 for a contact with no phone number and for an empty log.
C36_DurationIsSumOfNumberedMatches ==
  \A contact \in ProbeContacts :
     LET matching == {i \in DOMAIN callLogs :
                        /\ ~Falsy(callLogs[i].phoneNumber)
                        /\ normalizePhoneNumber(callLogs[i].phoneNumber)
                             \in NormalizedTruthyNumbers(contact)}
     IN  /\ findCallDurationForContact(contact, callLogs)
              = DurationSum(callLogs, matching)
         /\ Len(contact.phoneNumbers) = 0
              => findCallDurationForContact(contact, callLogs) = 0
         /\ Len(callLogs) = 0
              => findCallDurationForContact(contact, callLogs) = 0

\* C36 witness: the refresh has given Ann's bubble 42000 seconds from a log
\* of an entry both of her numbers match, a second spelling of her number and
\* an entry with no number.
C36_Witness ==
  /\ callLogs = << [phoneNumber |-> LogNumA, duration |-> 30000],
                   [phoneNumber |-> << >>, duration |-> 900],
                   [phoneNumber |-> NumA2, duration |-> 12000] >>
  /\ \E i \in DOMAIN bubbles :
        bubbles[i].contactId = "c1" /\ bubbles[i].callDuration = 42000
  /\ findCallDurationForContact(DeviceContacts[1], callLogs) = 42000

\* The list, the index and the selection are what they were.
LayoutUnchanged == UNCHANGED <<bubbles, bubbleMap, selectedContactIds>>

\* The confirmation is closed and no contact is pending.
DialogClosed == ~deleteModalVisible /\ contactToDelete = NoContact

\* C37: a delete request from a bubble opens the confirmation for the
\* contact of that bubble and leaves the list, the index and the selection
\* as they were, and so does Cancel; Delete takes out of the list and the
\* index exactly the bubbles of the pending contact, keeping the others in
\* order with their id, size and position, and takes that contact out of
\* the selection; Cancel and Delete close the confirmation and clear the
\* pending contact; Delete with no pending contact changes nothing; and the
\* pending contact changes in no other step.
C37_DeleteFlowFrame ==
  [][/\ HandleDeleteBubble
          => /\ LayoutUnchanged
             /\ deleteModalVisible'
             /\ \E i \in DOMAIN bubbles :
                   /\ bubbles[i].id = lastEvent'.id
                   /\ contactToDelete'.id = bubbles[i].contactId
     /\ CancelDelete => LayoutUnchanged /\ DialogClosed'
     /\ (ConfirmDelete /\ contactToDelete # NoContact)
          => LET c == contactToDelete.id
                 kept == SelectSeq(bubbles, LAMBDA b : b.contactId # c)
             IN  /\ Len(bubbles') = Len(kept)
                 /\ \A i \in DOMAIN kept : Shape(bubbles'[i]) = Shape(kept[i])
                 /\ DOMAIN bubbleMap' = Ids(kept)
                 /\ \A i \in DOMAIN kept :
                       Shape(bubbleMap'[kept[i].id]) = Shape(kept[i])
                 /\ selectedContactIds' = selectedContactIds \ {c}
                 /\ DialogClosed'
     /\ (ConfirmDelete /\ contactToDelete = NoContact)
          => /\ LayoutUnchanged
             /\ UNCHANGED <<deleteModalVisible, contactToDelete, saves, store>>
     /\ contactToDelete' # contactToDelete
          => HandleDeleteBubble \/ ConfirmDelete \/ CancelDelete]_vars

\* C37 witness: of the two restored bubbles the one of c1 was deleted through
\* the confirmation, which is closed again; the bubble of c2 is left.
C37_Witness ==
  /\ lastEvent.kind = "confirmDelete" /\ loadPc = "done"
  /\ store0 = TwoSnapshot
  /\ Len(bubbles) = 1 /\ bubbles[1].contactId = "c2"
  /\ DOMAIN bubbleMap = {bubbles[1].id}
  /\ selectedContactIds = {"c2"}
  /\ DialogClosed

\* The delete button is shown for a bubble.
ButtonShown == activeDeleteBubbleId # NoDrag

====
